---- MODULE Spec2Model ----
(***************************************************************************)
(* Transaction planning and chained-broadcast engine of enigmatic_dgb      *)
(* (planner.py, tx_builder.py).                                            *)
(*                                                                         *)
(* Money.  planner.py computes with decimal.Decimal.  Here an amount is an *)
(* integer number of units of 0.000000005 DGB (half a satoshi), so that    *)
(* a value with more than 8 fractional digits (a fee of 0.000000015 DGB is *)
(* 3 units) is representable and quantize(EIGHT_DP, ROUND_DOWN) is a real  *)
(* truncation: 1e-8 DGB is 2 units, DUST_LIMIT 0.0001 DGB is 20000 units,  *)
(* 1 DGB is 200000000 units.  Amounts stay below 2^31 units (10.7 DGB);    *)
(* the 16-digit decimal context of planner.py (getcontext().prec = 16)     *)
(* rounds or rejects only results of 10^7 DGB and more, so on these        *)
(* amounts Decimal arithmetic is exact.  tx_builder.py and fees.py compute *)
(* with binary floats, which are modelled bit for bit below.               *)
(***************************************************************************)
EXTENDS Integers, Sequences, FiniteSets, TLC

\* ---------------------------------------------------------------- bounds
MaxSteps == 3
MaxPolls == 3

\* ------------------------------------------------------------- constants
EIGHT_DP == 2
\* 0.0001 DGB and 1 DGB in units
DUST_LIMIT == 10000 * EIGHT_DP
COIN == 100000000 * EIGHT_DP
PREVIOUS_CHANGE_SENTINEL == "__PREVIOUS_CHANGE__"
DEFAULT_POLL_INTERVAL == 5
\* poll_seconds: float = 15.0 of broadcast, broadcast_chain and
\* _wait_for_block_target
DEFAULT_POLL_SECONDS == 15

\* ------------------------------------------------------- binary floating point
\* tx_builder.py and fees.py compute with Python floats (IEEE 754 binary64,
\* every operation rounded to nearest, ties to even).  A float is held as
\* [sign, mant, exp] and stands for sign * mant * 2^exp, where mant is a
\* natural number of exactly 53 bits; 0.0 is mant 0 with exp 0.  A natural
\* number too wide for a machine integer is the sequence of its digits in
\* base 2^15, least significant first, without leading zero digits (0 is
\* <<>>).  The amounts and rates of this program stay far from the exponent
\* limits of the format, so overflow, subnormal numbers and the sign of zero
\* are not represented.
Limb == 2^15

RECURSIVE BigNorm(_)
BigNorm(a) ==
    IF a # <<>> /\ a[Len(a)] = 0 THEN BigNorm(SubSeq(a, 1, Len(a) - 1)) ELSE a

RECURSIVE BigOfInt(_)
BigOfInt(n) == IF n = 0 THEN <<>> ELSE <<n % Limb>> \o BigOfInt(n \div Limb)

RECURSIVE BigToInt(_)
BigToInt(a) == IF a = <<>> THEN 0 ELSE a[1] + Limb * BigToInt(Tail(a))

\* The digit of a at position 1, 0 when a has none, and the digits above it.
Low(a) == IF a = <<>> THEN 0 ELSE a[1]
High(a) == IF a = <<>> THEN a ELSE Tail(a)

\* a + b + carry, the digit sum s of the lowest position given
RECURSIVE BigAddCarry(_, _, _)
BigAddDigit(a, b, s) == <<s % Limb>> \o BigAddCarry(High(a), High(b), s \div Limb)

BigAddCarry(a, b, carry) ==
    IF a = <<>> /\ b = <<>> THEN (IF carry = 0 THEN <<>> ELSE <<carry>>)
    ELSE BigAddDigit(a, b, Low(a) + Low(b) + carry)

BigAdd(a, b) == BigAddCarry(a, b, 0)

\* a - b - borrow for a >= b, the digit difference d of the lowest position
\* given
RECURSIVE BigSubBorrow(_, _, _)
BigSubDigit(a, b, d) ==
    <<IF d < 0 THEN d + Limb ELSE d>>
    \o BigSubBorrow(Tail(a), High(b), IF d < 0 THEN 1 ELSE 0)

BigSubBorrow(a, b, borrow) ==
    IF a = <<>> THEN <<>> ELSE BigSubDigit(a, b, a[1] - Low(b) - borrow)

BigSub(a, b) == BigNorm(BigSubBorrow(a, b, 0))

RECURSIVE BigCmpFrom(_, _, _)
BigCmpFrom(a, b, i) ==
    IF i = 0 THEN 0
    ELSE IF a[i] > b[i] THEN 1
    ELSE IF a[i] < b[i] THEN -1
    ELSE BigCmpFrom(a, b, i - 1)

\* 1, 0 or -1 as a is above, equal to or below b
BigCmp(a, b) ==
    IF Len(a) > Len(b) THEN 1
    ELSE IF Len(a) < Len(b) THEN -1
    ELSE BigCmpFrom(a, b, Len(a))

\* a * k + carry for a digit k, the product p of the lowest position given
RECURSIVE BigMulSmallCarry(_, _, _)
BigMulDigit(a, k, p) == <<p % Limb>> \o BigMulSmallCarry(Tail(a), k, p \div Limb)

BigMulSmallCarry(a, k, carry) ==
    IF a = <<>> THEN (IF carry = 0 THEN <<>> ELSE <<carry>>)
    ELSE BigMulDigit(a, k, a[1] * k + carry)

BigMulSmall(a, k) == IF k = 0 THEN <<>> ELSE BigMulSmallCarry(a, k, 0)

\* a * b, the product rest of a and the digits of b above the lowest given
RECURSIVE BigMul(_, _)
BigMulRow(a, digit, rest) ==
    BigAdd(BigMulSmall(a, digit), IF rest = <<>> THEN <<>> ELSE <<0>> \o rest)

BigMul(a, b) ==
    IF a = <<>> \/ b = <<>> THEN <<>> ELSE BigMulRow(a, b[1], BigMul(a, Tail(b)))

\* Long division by a divisor d <= 2^16, from digit i down; cur is the
\* running remainder with digit i appended.
RECURSIVE BigDivSmallFrom(_, _, _, _, _)
BigDivDigit(a, d, i, cur, quot) ==
    BigDivSmallFrom(a, d, i - 1, cur % d, <<cur \div d>> \o quot)

BigDivSmallFrom(a, d, i, rem, quot) ==
    IF i = 0 THEN [quot |-> BigNorm(quot), rem |-> rem]
    ELSE BigDivDigit(a, d, i, rem * Limb + a[i], quot)

BigDivSmall(a, d) == BigDivSmallFrom(a, d, Len(a), 0, <<>>)

\* a * 2^k
BigShl(a, k) ==
    IF a = <<>> THEN <<>>
    ELSE [i \in 1..(k \div 15) |-> 0] \o BigMulSmall(a, 2^(k % 15))

\* a \div 2^k
BigShr(a, k) ==
    IF Len(a) <= k \div 15 THEN <<>>
    ELSE BigDivSmall(SubSeq(a, (k \div 15) + 1, Len(a)), 2^(k % 15)).quot

RECURSIVE BitLen(_)
BitLen(n) == IF n = 0 THEN 0 ELSE 1 + BitLen(n \div 2)

BigBitLen(a) == IF a = <<>> THEN 0 ELSE 15 * (Len(a) - 1) + BitLen(a[Len(a)])

\* q or q + 1: the quotient q of a division rounded to the nearest integer,
\* ties to even, where c is 1, 0 or -1 as the remainder is above, equal to or
\* below half the divisor, and sticky says that the number divided lies
\* strictly above the dividend.
RoundHalfEven(q, c, sticky) ==
    IF c > 0 \/ (c = 0 /\ (sticky \/ (q # <<>> /\ q[1] % 2 = 1)))
    THEN BigAdd(q, <<1>>)
    ELSE q

BigShrRounded(n, k, sticky, q) ==
    RoundHalfEven(q, BigCmp(BigSub(n, BigShl(q, k)), BigShl(<<1>>, k - 1)),
                  sticky)

\* n \div 2^k, rounded to the nearest integer, ties to even
BigShrNearest(n, k, sticky) ==
    IF k = 0 THEN n ELSE BigShrRounded(n, k, sticky, BigShr(n, k))

Float(sign, mant, exp) == [sign |-> sign, mant |-> mant, exp |-> exp]

FloatZero == Float(1, <<>>, 0)

\* A mantissa m that rounding carried to 54 bits is halved.
Renormalized(sign, m, e) ==
    IF BigBitLen(m) > 53 THEN Float(sign, BigShr(m, 1), e + 1)
    ELSE Float(sign, m, e)

RoundBits(sign, n, e, sticky, len) ==
    IF len = 0 THEN FloatZero
    ELSE IF len <= 53 THEN Float(sign, BigShl(n, 53 - len), e - (53 - len))
    ELSE Renormalized(sign, BigShrNearest(n, len - 53, sticky), e + (len - 53))

\* The float nearest to sign * n * 2^e (to a number strictly between n and
\* n + 1 times 2^e when sticky, in which case n has more than 54 bits).
RoundToFloat(sign, n, e, sticky) == RoundBits(sign, n, e, sticky, BigBitLen(n))

\* n divided by each of the divisors in turn; sticky records a remainder.
RECURSIVE BigDivAll(_, _, _)
BigDivNext(d, divisors, sticky) ==
    BigDivAll(d.quot, Tail(divisors), sticky \/ d.rem # 0)

BigDivAll(n, divisors, sticky) ==
    IF divisors = <<>> THEN [quot |-> n, sticky |-> sticky]
    ELSE BigDivNext(BigDivSmall(n, Head(divisors)), divisors, sticky)

RoundQuotient(sign, d, e) == RoundToFloat(sign, d.quot, e, d.sticky)

\* The float nearest to sign * n * 2^e / (the product of the divisors),
\* for a product below 2^30: the quotient is taken with 90 more bits.
FloatQuotient(sign, n, e, divisors) ==
    RoundQuotient(sign, BigDivAll(BigShl(n, 90), divisors, FALSE), e - 90)

Sign(n) == IF n < 0 THEN -1 ELSE 1
Magnitude(n) == BigOfInt(IF n < 0 THEN 0 - n ELSE n)

\* float(n) of an integer
FloatOfInt(n) == RoundToFloat(Sign(n), Magnitude(n), 0, FALSE)

\* float of the decimal numeral n / 10^places, places <= 8 (JSON numbers,
\* float("0.00002"), literals such as 1e-8)
FloatOfDecimal(n, places) ==
    FloatQuotient(Sign(n), Magnitude(n), 0,
                  IF places > 4 THEN <<10000, 10^(places - 4)>>
                  ELSE <<10^places>>)

\* float(amount) of an amount of money held in units of 0.000000005 DGB
FloatOfUnits(units) ==
    FloatQuotient(Sign(units), Magnitude(units), -1, <<10000, 10000>>)

FloatNeg(x) == IF x.mant = <<>> THEN x ELSE [x EXCEPT !.sign = 0 - x.sign]

\* sx * a * 2^e + sy * b * 2^e, where c compares a with b
AddCompared(sx, a, sy, b, e, c) ==
    RoundToFloat(IF sx = sy \/ c >= 0 THEN sx ELSE sy,
                 IF sx = sy THEN BigAdd(a, b)
                 ELSE IF c >= 0 THEN BigSub(a, b) ELSE BigSub(b, a),
                 e, FALSE)

AddAligned(sx, a, sy, b, e) == AddCompared(sx, a, sy, b, e, BigCmp(a, b))

\* x + y for x and y other than 0.0, e the smaller exponent
AddAt(x, y, e) ==
    AddAligned(x.sign, BigShl(x.mant, x.exp - e),
               y.sign, BigShl(y.mant, y.exp - e), e)

\* x + y
FloatAdd(x, y) ==
    IF x.mant = <<>> THEN y
    ELSE IF y.mant = <<>> THEN x
    ELSE AddAt(x, y, IF x.exp < y.exp THEN x.exp ELSE y.exp)

\* x - y
FloatSub(x, y) == FloatAdd(x, FloatNeg(y))

\* x * y
FloatMul(x, y) ==
    RoundToFloat(x.sign * y.sign, BigMul(x.mant, y.mant), x.exp + y.exp, FALSE)

\* x / d for a float d that is the integer product of the divisors
FloatDiv(x, divisors) == FloatQuotient(x.sign, x.mant, x.exp, divisors)

\* |x| < |y|: floats of one sign compare by exponent, then by mantissa.
MagnitudeLess(x, y) ==
    IF y.mant = <<>> THEN FALSE
    ELSE IF x.mant = <<>> THEN TRUE
    ELSE IF x.exp # y.exp THEN x.exp < y.exp
    ELSE BigCmp(x.mant, y.mant) < 0

\* x < y
FloatLess(x, y) ==
    IF x.sign # y.sign THEN x.sign < y.sign
    ELSE MagnitudeLess(IF x.sign > 0 THEN x ELSE y, IF x.sign > 0 THEN y ELSE x)

\* math.ceil(x) for x with a fraction, q the integer part of |x|
CeilFrom(x, q) ==
    IF x.sign < 0 THEN 0 - BigToInt(q)
    ELSE IF BigShl(q, 0 - x.exp) = x.mant THEN BigToInt(q)
    ELSE BigToInt(q) + 1

\* math.ceil(x) as an integer
FloatCeil(x) ==
    IF x.mant = <<>> THEN 0
    ELSE IF x.exp >= 0 THEN x.sign * BigToInt(BigShl(x.mant, x.exp))
    ELSE CeilFrom(x, BigShr(x.mant, 0 - x.exp))

\* n * 2^e rounded to the nearest integer, ties to even
NearestInteger(n, e) ==
    IF e >= 0 THEN BigShl(n, e) ELSE BigShrNearest(n, 0 - e, FALSE)

\* |x| * 10^8 rounded to the nearest integer, ties to even: the number of
\* satoshis of the decimal with 8 fractional digits nearest to x.
NearestSatoshi(x) ==
    NearestInteger(BigMulSmall(BigMulSmall(x.mant, 10000), 10000), x.exp)

\* round(x, 8): the float nearest to the decimal with 8 fractional digits
\* nearest to x.
Round8(x) == FloatQuotient(x.sign, NearestSatoshi(x), 0, <<10000, 10000>>)

\* The amount, in units, the node reads from the JSON number of a float.
UnitsOfFloat(x) == x.sign * EIGHT_DP * BigToInt(NearestSatoshi(x))

\* ------------------------------------------------------- helper operators
RECURSIVE SumSeq(_)
SumSeq(s) == IF s = <<>> THEN 0 ELSE Head(s) + SumSeq(Tail(s))

AmountsOf(s) == [i \in 1..Len(s) |-> s[i].amount]

\* Decimal.quantize(EIGHT_DP, rounding=ROUND_DOWN): truncation toward zero
\* to a multiple of 1e-8.  (Under getcontext().prec = 16 quantize raises
\* InvalidOperation for a result of 17 digits, 10^8 DGB and more; amounts
\* here are below 2^31 units.)
Quantize(x) == IF x >= 0 THEN (x \div EIGHT_DP) * EIGHT_DP
               ELSE 0 - (((0 - x) \div EIGHT_DP) * EIGHT_DP)

\* sorted(spendable, key=amount) as it would be without reverse=True: stable,
\* ascending.
RECURSIVE InsertAsc(_, _)
InsertAsc(sorted, u) ==
    IF sorted = <<>> THEN <<u>>
    ELSE IF Head(sorted).amount <= u.amount
         THEN <<Head(sorted)>> \o InsertAsc(Tail(sorted), u)
         ELSE <<u>> \o sorted

RECURSIVE SortAsc(_)
SortAsc(s) ==
    IF s = <<>> THEN <<>>
    ELSE InsertAsc(SortAsc(SubSeq(s, 1, Len(s) - 1)), s[Len(s)])

\* sorted(spendable, key=amount, reverse=True): stable, descending.
RECURSIVE InsertDesc(_, _)
InsertDesc(sorted, u) ==
    IF sorted = <<>> THEN <<u>>
    ELSE IF Head(sorted).amount >= u.amount
         THEN <<Head(sorted)>> \o InsertDesc(Tail(sorted), u)
         ELSE <<u>> \o sorted

SortDesc_ReverseForgotten(s) == SortAsc(s)

RECURSIVE SortDesc(_)
SortDesc(s) ==
    IF s = <<>> THEN <<>>
    ELSE InsertDesc(SortDesc(SubSeq(s, 1, Len(s) - 1)), s[Len(s)])

\* [utxo for utxo in utxos if utxo.get("spendable", True)]
Spendable(utxos) == SelectSeq(utxos, LAMBDA u : u.spendable)

\* The for loop of _select_utxos_covering_total: append, add, break once
\* the running total reaches the minimum.
CoverLoop_NoBreak(candidates, selected, total, minimum_total) ==
    [selected |-> selected \o candidates,
     total |-> total + SumSeq(AmountsOf(candidates))]

RECURSIVE CoverLoop(_, _, _, _)
CoverLoop(candidates, selected, total, minimum_total) ==
    IF candidates = <<>> THEN [selected |-> selected, total |-> total]
    ELSE LET sel == Append(selected, Head(candidates))
             tot == total + Head(candidates).amount
         IN IF tot >= minimum_total
            THEN [selected |-> sel, total |-> tot]
            ELSE CoverLoop(Tail(candidates), sel, tot, minimum_total)

_select_utxos_covering_total(utxos, minimum_total) ==
    LET spendable == Spendable(utxos)
    IN IF spendable = <<>>
       THEN [ok |-> FALSE, err |-> "no_spendable", selected |-> <<>>, total |-> 0]
       ELSE LET r == CoverLoop(SortDesc(spendable), <<>>, 0, minimum_total)
            IN IF r.total < minimum_total
               THEN [ok |-> FALSE, err |-> "selection_short",
                     selected |-> <<>>, total |-> 0]
               ELSE [ok |-> TRUE, err |-> "", selected |-> r.selected,
                     total |-> r.total]

\* ------------------------------------------------------------ plan values
NoChange == [present |-> FALSE, address |-> "", amount |-> 0]
NoScriptPlane == "none"
ChangeAddrs == <<"change0", "change1", "change2", "change3", "change4",
                 "change5", "change6", "change7">>

\* rpc.getrawchangeaddress() of a wallet that has handed out n addresses.
getrawchangeaddress(n) == ChangeAddrs[n + 1]

PatternInput(txid, vout, amount) ==
    [txid |-> txid, vout |-> vout, amount |-> amount]

PatternOutput(address, amount) == [address |-> address, amount |-> amount]

PatternPlan(inputs, outputs, change_output, fee, script_plane) ==
    [inputs |-> inputs, outputs |-> outputs, change_output |-> change_output,
     fee |-> fee, script_plane |-> script_plane]

PlanError(err, rpc_calls, new_addresses) ==
    [ok |-> FALSE, err |-> err, steps |-> <<>>, rpc_calls |-> rpc_calls,
     new_addresses |-> new_addresses]

\* for amount in amounts: reject amount <= 0, else quantize and collect.
RECURSIVE NormalizeAmounts(_)
NormalizeAmounts(amounts) ==
    IF amounts = <<>> THEN [ok |-> TRUE, normalized |-> <<>>]
    ELSE IF Head(amounts) <= 0 THEN [ok |-> FALSE, normalized |-> <<>>]
    ELSE LET rest == NormalizeAmounts(Tail(amounts))
         IN IF rest.ok
            THEN [ok |-> TRUE,
                  normalized |-> <<Quantize(Head(amounts))>> \o rest.normalized]
            ELSE rest

\* change_amount = (available_pool - amount - fee).quantize(EIGHT_DP, ROUND_DOWN)
\* The subtraction is exact below 10^7 DGB, where it has at most 16 digits.
ChangeAmount_FeeForgotten(available_pool, amount, fee) ==
    Quantize(available_pool - amount)

ChangeAmount(available_pool, amount, fee) ==
    Quantize(available_pool - amount - fee)

\* The comparison "< DUST_LIMIT" of the two dust checks and (negated) of the
\* test that decides between a change output and folding.
BelowDust_WrongScale(x) == x < EIGHT_DP

BelowDust(x) == x < DUST_LIMIT

\* The body of "for index, amount in enumerate(normalized_amounts)" of
\* plan_explicit_pattern, iteration index (0-based) onwards.
\*   pending = [set, amount] is pending_change_amount (None when not set),
\*   nchg    = number of change addresses already obtained from the wallet.
RECURSIVE PlanLoop(_, _, _, _, _, _, _, _, _, _)
PlanLoop(index, normalized, fee, to_address, pattern_inputs, pool, pending, steps, nchg, script_plane) ==
    IF index >= Len(normalized)
    THEN [ok |-> TRUE, err |-> "", steps |-> steps,
          rpc_calls |-> 1 + nchg, new_addresses |-> nchg]
    ELSE
    LET amount == normalized[index + 1]
        chain_err ==
            IF index = 0 THEN ""
            ELSE IF ~pending.set THEN "missing_change"
            ELSE IF BelowDust(pending.amount) THEN "dust"
            ELSE ""
        available_pool == IF index = 0 THEN pool ELSE pending.amount
        step_inputs ==
            IF index = 0 THEN pattern_inputs
            ELSE <<PatternInput(PREVIOUS_CHANGE_SENTINEL, 0, pending.amount)>>
        raw_change == ChangeAmount(available_pool, amount, fee)
        is_last == (index = Len(normalized) - 1)
        has_change == raw_change > 0 /\ ~BelowDust(raw_change)
        folds == raw_change > 0 /\ BelowDust(raw_change)
        change_output ==
            IF has_change
            THEN [present |-> TRUE, address |-> getrawchangeaddress(nchg),
                  amount |-> raw_change]
            ELSE NoChange
        step_outputs ==
            IF folds
            THEN <<PatternOutput(to_address, Quantize(amount + raw_change))>>
            ELSE <<PatternOutput(to_address, amount)>>
        change_amount == IF folds THEN 0 ELSE raw_change
    IN IF chain_err # "" THEN PlanError(chain_err, 1 + nchg, nchg)
       ELSE IF available_pool < amount + fee
       THEN PlanError("insufficient_funds", 1 + nchg, nchg)
       ELSE IF raw_change > 0 /\ BelowDust(raw_change) /\ ~is_last
       THEN PlanError("dust", 1 + nchg, nchg)
       ELSE PlanLoop(index + 1, normalized, fee, to_address, pattern_inputs,
                     available_pool,
                     [set |-> TRUE, amount |-> change_amount],
                     Append(steps, PatternPlan(step_inputs, step_outputs,
                                               change_output, fee,
                                               script_plane)),
                     IF has_change THEN nchg + 1 ELSE nchg,
                     script_plane)

\* plan_explicit_pattern(rpc, to_address, amounts, fee, script_plane) against
\* a wallet whose listunspent answers utxos.  rpc_calls counts the calls made
\* to the wallet node (listunspent, getrawchangeaddress) before returning or
\* raising; every failure is a PlanningError, err names which one.
plan_explicit_pattern(utxos, to_address, amounts, fee, script_plane) ==
    IF amounts = <<>> THEN PlanError("empty", 0, 0)
    ELSE LET norm == NormalizeAmounts(amounts)
    IN IF ~norm.ok THEN PlanError("nonpositive_amount", 0, 0)
    ELSE IF SumSeq(norm.normalized) <= 0 THEN PlanError("zero_total", 0, 0)
    ELSE IF fee < 0 THEN PlanError("negative_fee", 0, 0)
    ELSE LET required_total ==
                 SumSeq(norm.normalized) + fee * Len(norm.normalized)
             sel == _select_utxos_covering_total(utxos, required_total)
    IN IF ~sel.ok THEN PlanError(sel.err, 1, 0)
       ELSE PlanLoop(0, norm.normalized, fee, to_address,
                     [i \in 1..Len(sel.selected) |->
                         PatternInput(sel.selected[i].txid,
                                      sel.selected[i].vout,
                                      sel.selected[i].amount)],
                     sel.total, [set |-> FALSE, amount |-> 0], <<>>, 0,
                     script_plane)

\* -------------------------------------------------- broadcast coordinator
NoRef == [set |-> FALSE, txid |-> "", vout |-> 0]
NoLimit == -1
StubTxids == <<"tx1", "tx2", "tx3", "tx4", "tx5", "tx6", "tx7", "tx8">>
NewAddrs == <<"new0", "new1", "new2", "new3", "new4", "new5", "new6", "new7">>

\* rpc.getnewaddress() of a wallet that has handed out n addresses.
getnewaddress(n) == NewAddrs[n + 1]

\* as _resolve_chained_inputs, but without the check for a missing reference
RECURSIVE _resolve_chained_inputs_Unchecked(_, _)
_resolve_chained_inputs_Unchecked(inputs, previous_change_ref) ==
    IF inputs = <<>> THEN [ok |-> TRUE, rpc_inputs |-> <<>>]
    ELSE LET entry == Head(inputs)
             rest == _resolve_chained_inputs_Unchecked(Tail(inputs),
                                                       previous_change_ref)
         IN IF entry.txid = PREVIOUS_CHANGE_SENTINEL /\ previous_change_ref.set
            THEN [ok |-> rest.ok,
                  rpc_inputs |->
                      <<[txid |-> previous_change_ref.txid,
                         vout |-> previous_change_ref.vout]>>
                      \o rest.rpc_inputs]
            ELSE [ok |-> rest.ok,
                  rpc_inputs |-> <<[txid |-> entry.txid, vout |-> entry.vout]>>
                                 \o rest.rpc_inputs]

\* _resolve_chained_inputs: a placeholder becomes the recorded reference,
\* or the call raises PlanningError when there is none.
RECURSIVE _resolve_chained_inputs(_, _)
_resolve_chained_inputs(inputs, previous_change_ref) ==
    IF inputs = <<>> THEN [ok |-> TRUE, rpc_inputs |-> <<>>]
    ELSE LET entry == Head(inputs)
             rest == _resolve_chained_inputs(Tail(inputs), previous_change_ref)
         IN IF entry.txid = PREVIOUS_CHANGE_SENTINEL
            THEN IF ~previous_change_ref.set
                 THEN [ok |-> FALSE, rpc_inputs |-> <<>>]
                 ELSE [ok |-> rest.ok,
                       rpc_inputs |->
                           <<[txid |-> previous_change_ref.txid,
                              vout |-> previous_change_ref.vout]>>
                           \o rest.rpc_inputs]
            ELSE [ok |-> rest.ok,
                  rpc_inputs |-> <<[txid |-> entry.txid, vout |-> entry.vout]>>
                                 \o rest.rpc_inputs]

\* ordered_outputs[address] = amount on an OrderedDict: an existing key
\* keeps its position and takes the new value, a new key is appended.
DictSet(d, address, amount) ==
    IF \E i \in 1..Len(d) : d[i].address = address
    THEN [i \in 1..Len(d) |->
             IF d[i].address = address
             THEN [address |-> address, amount |-> amount] ELSE d[i]]
    ELSE Append(d, [address |-> address, amount |-> amount])

RECURSIVE DictFromOutputs(_, _)
DictFromOutputs(d, outputs) ==
    IF outputs = <<>> THEN d
    ELSE DictFromOutputs(DictSet(d, Head(outputs).address, Head(outputs).amount),
                         Tail(outputs))

\* payload_list = [payload] if payload else None  (None is <<>>; a null or
\* empty payload is "").
PayloadList(payload) == IF payload # "" THEN <<payload>> ELSE <<>>

\* _query_confirmations: a failing gettransaction or an unparsable
\* "confirmations" field counts as 0.
_query_confirmations(resp) ==
    IF resp.kind = "ok" THEN resp.confirmations ELSE 0

\* TransactionBuilder._prepare_outputs_payload + _format_outputs_for_rpc:
\* the address outputs in order, then one data output per payload.
FormatOutputs(outputs, op_return_data) ==
    [i \in 1..Len(outputs) |->
        [kind |-> "pay", address |-> outputs[i].address,
         amount |-> outputs[i].amount, data |-> ""]]
    \o [i \in 1..Len(op_return_data) |->
        [kind |-> "data", address |-> "", amount |-> 0,
         data |-> op_return_data[i]]]

\* UTXO(txid=..., vout=..., amount=float(item["amount"]), ...) for every
\* entry of listunspent.
UTXO(item) == [item EXCEPT !.amount = FloatOfUnits(item.amount)]

\* sorted(utxos, key=lambda u: u.amount) on float amounts: stable, ascending.
RECURSIVE InsertByAmount(_, _)
InsertByAmount(sorted, u) ==
    IF sorted = <<>> THEN <<u>>
    ELSE IF ~FloatLess(u.amount, Head(sorted).amount)
         THEN <<Head(sorted)>> \o InsertByAmount(Tail(sorted), u)
         ELSE <<u>> \o sorted

RECURSIVE SortByAmount(_)
SortByAmount(s) ==
    IF s = <<>> THEN <<>>
    ELSE InsertByAmount(SortByAmount(SubSeq(s, 1, Len(s) - 1)), s[Len(s)])

\* The for loop of select_utxos: append, "total += utxo.amount", break once
\* "total >= needed"; total and needed are floats.
RECURSIVE SelectLoop(_, _, _, _)
SelectNext(candidates, selected, total, needed) ==
    IF ~FloatLess(total, needed) THEN [selected |-> selected, total |-> total]
    ELSE SelectLoop(Tail(candidates), selected, total, needed)

SelectLoop(candidates, selected, total, needed) ==
    IF candidates = <<>> THEN [selected |-> selected, total |-> total]
    ELSE SelectNext(candidates, Append(selected, Head(candidates)),
                    FloatAdd(total, Head(candidates).amount), needed)

\* UTXOManager.select_utxos(target_amount, fee), both floats: smallest first
\* over everything listunspent reports, until target + fee is covered;
\* change = total - target_amount - fee is a float as well.
SelectionFailed == [ok |-> FALSE, selected |-> <<>>, change |-> FloatZero]

\* After the loop has ended with r: "if total < needed: raise", else the
\* selection and "change = total - target_amount - fee".
SelectionOf(r, target_amount, fee, needed) ==
    IF FloatLess(r.total, needed) THEN SelectionFailed
    ELSE [ok |-> TRUE, selected |-> r.selected,
          change |-> FloatSub(FloatSub(r.total, target_amount), fee)]

\* From "needed = target_amount + fee" on.
SelectNeeded(utxos, target_amount, fee, needed) ==
    SelectionOf(SelectLoop(SortByAmount([i \in 1..Len(utxos) |-> UTXO(utxos[i])]),
                           <<>>, FloatZero, needed),
                target_amount, fee, needed)

select_utxos(utxos, target_amount, fee) ==
    IF utxos = <<>> THEN SelectionFailed
    ELSE SelectNeeded(utxos, target_amount, fee, FloatAdd(target_amount, fee))

\* sum(float(amount) for amount in amounts), added from the left.
RECURSIVE FloatSum(_, _)
FloatSum(total, amounts) ==
    IF amounts = <<>> THEN total
    ELSE FloatSum(FloatAdd(total, FloatOfUnits(Head(amounts))), Tail(amounts))

\* The aggregated_outputs loop of send_multi_output_tx: every amount goes
\* into the single dictionary entry keyed by to_address,
\*   round(aggregated_outputs.get(to_address, 0.0) + float(amount), 8).
RECURSIVE AggregateOutputs(_, _, _)
AggregateOutputs(d, to_address, amounts) ==
    IF amounts = <<>> THEN d
    ELSE LET prev == IF \E i \in 1..Len(d) : d[i].address = to_address
                     THEN (CHOOSE e \in {d[i] : i \in 1..Len(d)} :
                               e.address = to_address).amount
                     ELSE FloatZero
         IN AggregateOutputs(
                DictSet(d, to_address,
                        Round8(FloatAdd(prev, FloatOfUnits(Head(amounts))))),
                to_address, Tail(amounts))

\* The literal 1e-8
Float1eMinus8 == FloatOfDecimal(1, 8)

\* if change_amount > 1e-8
HasChange(change_amount) == FloatLess(Float1eMinus8, change_amount)

\* createrawtransaction reads every float amount as a number of satoshis.
NodeAmounts(outputs) ==
    [i \in 1..Len(outputs) |->
        [outputs[i] EXCEPT !.amount = UnitsOfFloat(outputs[i].amount)]]

\* tx_inputs = [{"txid": utxo.txid, "vout": utxo.vout} for utxo in selected_utxos]
TxInputs(selected_utxos) ==
    [i \in 1..Len(selected_utxos) |->
        [txid |-> selected_utxos[i].txid, vout |-> selected_utxos[i].vout]]

\* if change_amount > 1e-8:
\*     aggregated_outputs[self.rpc.getnewaddress()] = round(change_amount, 8)
\* for a wallet that has issued this many addresses.
ChangeAdded(aggregated_outputs, issued, change_amount) ==
    IF HasChange(change_amount)
    THEN DictSet(aggregated_outputs, getnewaddress(issued), Round8(change_amount))
    ELSE aggregated_outputs

\* send_multi_output_tx from the selection sel on: the inputs and outputs it
\* hands to createrawtransaction and the addresses it took.
FanoutTransaction(sel, issued, to_address, amounts) ==
    IF ~sel.ok
    THEN [ok |-> FALSE, err |-> "builder_funds", inputs |-> <<>>,
          outputs |-> <<>>, new_addresses |-> 0]
    ELSE [ok |-> TRUE, err |-> "", inputs |-> TxInputs(sel.selected),
          outputs |-> NodeAmounts(ChangeAdded(AggregateOutputs(<<>>, to_address, amounts),
                                              issued, sel.change)),
          new_addresses |-> IF HasChange(sel.change) THEN 1 ELSE 0]

\* send_multi_output_tx(to_address, amounts, fee) up to createrawtransaction
\* (an empty amounts list raises ValueError before anything else),
\* against a wallet whose listunspent answers utxos and that has issued this
\* many addresses; fee is a float, the amounts are Decimals.
send_multi_output_tx(utxos, issued, to_address, amounts, fee) ==
    IF amounts = <<>>
    THEN [ok |-> FALSE, err |-> "no_amounts", inputs |-> <<>>, outputs |-> <<>>,
          new_addresses |-> 0]
    ELSE FanoutTransaction(select_utxos(utxos, FloatSum(FloatZero, amounts), fee),
                           issued, to_address, amounts)

\* ------------------------------------------------------------------ inputs
Utxo(txid, vout, amount, spendable) ==
    [txid |-> txid, vout |-> vout, amount |-> amount, spendable |-> spendable]

\* Wallets the node may report through listunspent (in report order).
Wallets ==
    { <<Utxo("a", 0, 4 * COIN, TRUE), Utxo("b", 1, 3 * COIN, TRUE),
        Utxo("c", 2, 2 * COIN, TRUE)>>,
      <<Utxo("tiny1", 0, 60000, TRUE)>>,
      <<Utxo("w", 0, COIN, TRUE), Utxo("x", 0, 5 * COIN, FALSE),
        Utxo("y", 1, 2 * COIN, TRUE), Utxo("z", 3, COIN, TRUE)>>,
      <<Utxo("x", 0, 5 * COIN, FALSE)>> }

\* 1 DGB and 0.000200005 DGB (nine fractional digits, which the planner
\* truncates to 0.0002 DGB).
AmountChoices == {COIN, 40001}

\* 0, 0.1 DGB, 0.00001 DGB, 0.000000015 DGB (nine fractional digits) and a
\* negative fee.
FeeChoices == {0, 20000000, 2000, 3, 0 - 2000}

SeqsUpTo(S, n) == UNION {[1..k -> S] : k \in 0..n}

\* Amount lists a caller may ask for.  The first two added lists are the
\* worked scenarios of the test suite: 1.0, 2.0, 3.0 DGB, and 0.0002, 0.00002
\* DGB (a chain whose intermediate change is dust); the others hold an
\* amount of zero, a negative amount, an amount below 1e-8, and 0.0000002
\* DGB.
AmountLists ==
    SeqsUpTo(AmountChoices, MaxSteps)
    \cup {<<COIN, 2 * COIN, 3 * COIN>>, <<40000, 4000>>}
    \cup {<<0>>, <<COIN, 0 - COIN>>, <<1>>, <<40>>}

\* Steps of hand-built sequences given to broadcast_pattern_plan directly.
ArbStep(sentinel, address, change, fee, script_plane) ==
    PatternPlan(
        IF sentinel THEN <<PatternInput(PREVIOUS_CHANGE_SENTINEL, 1, COIN)>>
                    ELSE <<PatternInput("a", 0, 4 * COIN)>>,
        <<PatternOutput(address, COIN)>>,
        IF change THEN [present |-> TRUE, address |-> "change0",
                        amount |-> 2 * COIN]
                  ELSE NoChange,
        fee, script_plane)

ArbSteps ==
    { ArbStep(sn, "dest", ch, 2000, NoScriptPlane) : sn \in BOOLEAN, ch \in BOOLEAN }
    \cup { ArbStep(TRUE, "other", TRUE, 2000, NoScriptPlane),
           ArbStep(TRUE, "dest", TRUE, 4000, NoScriptPlane),
           ArbStep(TRUE, "dest", TRUE, 2000, "p2tr"),
           ArbStep(TRUE, "change0", TRUE, 2000, NoScriptPlane),
           ArbStep(FALSE, "change0", TRUE, 2000, NoScriptPlane) }

MaxArbSteps == 2
ArbitraryPlans == SeqsUpTo(ArbSteps, MaxArbSteps)

\* op_returns arguments for a plan of n steps: None, a list of nulls, a
\* payload on the first step only, a payload on every step, or a list of
\* the wrong length.
OpReturnChoices(n) ==
    {[given |-> FALSE, values |-> <<>>],
     [given |-> TRUE, values |-> [i \in 1..n |-> ""]],
     [given |-> TRUE, values |-> [i \in 1..n |-> IF i = 1 THEN "aa" ELSE ""]],
     [given |-> TRUE, values |-> [i \in 1..n |-> "aa"]],
     [given |-> TRUE, values |-> [i \in 1..(n + 1) |-> "aa"]]}

ConfirmationChoices == {0, 1}
WaitChoices == {0, 2}
MaxWaitChoices == {NoLimit, 0, 4}

\* Pacing arguments (min_confirmations_between_steps, wait_between_txs,
\* max_wait_seconds).  The single_tx branch reads none of them and
\* max_wait_seconds is read only when gating is on, so the arguments the
\* code ignores stay at their defaults.
PacingChoices(single_tx) ==
    IF single_tx THEN {<<0, 0, NoLimit>>}
    ELSE {<<0, w, NoLimit>> : w \in WaitChoices}
         \cup {<<m, w, mw>> : m \in ConfirmationChoices \ {0},
                              w \in WaitChoices, mw \in MaxWaitChoices}

\* What gettransaction can answer to one poll.
PollResponses ==
    {[kind |-> "ok", confirmations |-> c] : c \in {0, 1}}
    \cup {[kind |-> "rpc_error", confirmations |-> 0],
          [kind |-> "unparsable", confirmations |-> 0]}

\* Optional arguments: None, or a number.
None == [given |-> FALSE, value |-> 0]
Some(v) == [given |-> TRUE, value |-> v]
\* Python truthiness of an optional number, as read by "a or b".
Truthy(o) == o.given /\ o.value # 0

\* rpc.getblockcount() of the node when a plan is made.
CurrentHeight == 100

\* AutomationMetadata as AutomationDialect.load builds it when the dialect
\* has no scheduling section: max_drift_blocks defaults to 1.
AutomationMetadata(max_drift_blocks) == [max_drift_blocks |-> max_drift_blocks]
DefaultAutomation == AutomationMetadata(1)

\* ------------------------------------------------------------------- state
VARIABLES
    wallet,              \* what listunspent reports
    addresses_issued,    \* addresses the wallet has handed out so far
    pc,                  \* position of the caller / coordinator
    request,             \* arguments of the last plan_explicit_pattern call
    plan_result,         \* what that call returned or raised
    plan,                \* the PatternPlanSequence handed to the coordinator
    params,              \* keyword arguments of broadcast_pattern_plan
    index,               \* 1-based index of the step being processed
    previous_change_ref, \* (txid, change_index) of the preceding step
    txids,               \* the list the coordinator will return
    calls,               \* every call the coordinator made to the builder
    ledger,              \* transactions the node accepted, in order
    polls,               \* confirmation polls made: [step, depth]
    last_response,       \* raw answer of the latest gettransaction
    sleeps,              \* time.sleep calls made: [step, seconds]
    waited,              \* the waited counter of _wait_for_confirmations
    error,               \* the exception broadcast_pattern_plan raised
    api_call,            \* the library function a caller invoked, with its arguments
    api_return,          \* what that function returned or raised
    automation,          \* SymbolPlanner.automation (AutomationMetadata)
    chain_height,        \* what getblockcount would answer now
    current_height,      \* current_height of _wait_for_block_target
    poll_seconds         \* the poll_seconds argument of broadcast / broadcast_chain

vars == <<wallet, addresses_issued, pc, request, plan_result, plan, params,
          index, previous_change_ref, txids, calls, ledger, polls,
          last_response, sleeps, waited, error, api_call, api_return,
          automation, chain_height, current_height, poll_seconds>>

NoRequest == [to_address |-> "", amounts |-> <<>>, fee |-> 0]
NoResult == [ok |-> FALSE, err |-> "not_called", steps |-> <<>>,
             rpc_calls |-> 0, new_addresses |-> 0]
NoParams == [single_tx |-> FALSE, op_returns |-> [given |-> FALSE, values |-> <<>>],
             min_confirmations_between_steps |-> 0, wait_between_txs |-> 0,
             max_wait_seconds |-> NoLimit]
NoResponse == [kind |-> "none", confirmations |-> 0]
NoCall == [fn |-> "none"]
NoReturn == [ok |-> FALSE, err |-> "not_called"]

Init ==
    /\ wallet \in Wallets
    /\ addresses_issued = 0
    /\ pc = "idle"
    /\ request = NoRequest
    /\ plan_result = NoResult
    /\ plan = <<>>
    /\ params = NoParams
    /\ index = 0
    /\ previous_change_ref = NoRef
    /\ txids = <<>>
    /\ calls = <<>>
    /\ ledger = <<>>
    /\ polls = <<>>
    /\ last_response = NoResponse
    /\ sleeps = <<>>
    /\ waited = 0
    /\ error = ""
    /\ api_call = NoCall
    /\ api_return = NoReturn
    /\ automation = DefaultAutomation
    /\ chain_height = CurrentHeight
    /\ current_height = None
    /\ poll_seconds = DEFAULT_POLL_SECONDS

\* A caller plans a pattern: plan_explicit_pattern(rpc, ...).
PlanExplicitPattern ==
    /\ pc = "idle" /\ api_call = NoCall
    /\ \E amounts \in AmountLists, fee \in FeeChoices :
         LET r == plan_explicit_pattern(wallet, "dest", amounts, fee, NoScriptPlane)
         IN /\ request' = [to_address |-> "dest", amounts |-> amounts, fee |-> fee]
            /\ plan_result' = r
            /\ plan' = r.steps
            /\ addresses_issued' = addresses_issued + r.new_addresses
            /\ pc' = IF r.ok THEN "planned" ELSE "plan_failed"
    /\ UNCHANGED <<wallet, params, index, previous_change_ref, txids, calls,
                   ledger, polls, last_response, sleeps, waited, error>>
    /\ UNCHANGED <<api_call, api_return, automation, chain_height, current_height, poll_seconds>>

\* A caller hands broadcast_pattern_plan a sequence it built itself.
SubmitPlan ==
    /\ pc = "idle"
    /\ \E p \in ArbitraryPlans :
         /\ plan' = p
         /\ pc' = "planned"
    /\ UNCHANGED <<wallet, addresses_issued, request, plan_result, params,
                   index, previous_change_ref, txids, calls, ledger, polls,
                   last_response, sleeps, waited, error>>
    /\ UNCHANGED <<api_call, api_return, automation, chain_height, current_height, poll_seconds>>

\* Errors broadcast_pattern_plan raises itself (PlanningError); the other
\* values of error are exceptions of the builder that pass through it.
PlanningErrors ==
    {"op_return_count", "fanout_address", "fanout_fee", "fanout_script_plane",
     "fanout_payloads", "unresolved_input", "chain_ended", "timeout"}

NonNull(values) == SelectSeq(values, LAMBDA v : v # "")

\* if len(non_null_payloads) > 1: raise PlanningError
TooManyPayloads_OffByOne(non_null_payloads) == Len(non_null_payloads) > 2

TooManyPayloads(non_null_payloads) == Len(non_null_payloads) > 1

\* The checks of the single_tx branch, in source order, and the arguments it
\* then passes to send_multi_output_tx.
FanoutCheck(steps, op_returns) ==
    LET primary_outputs == [i \in 1..Len(steps) |-> steps[i].outputs[1]]
        destination_addresses ==
            {primary_outputs[i].address : i \in 1..Len(steps)}
        fanout_fee == steps[1].fee
        script_planes == {steps[i].script_plane : i \in 1..Len(steps)}
        non_null_payloads ==
            IF op_returns.given THEN NonNull(op_returns.values) ELSE <<>>
        err ==
            IF Cardinality(destination_addresses) # 1 THEN "fanout_address"
            ELSE IF \E i \in 1..Len(steps) : steps[i].fee # fanout_fee
                 THEN "fanout_fee"
            ELSE IF Cardinality(script_planes) > 1 THEN "fanout_script_plane"
            ELSE IF TooManyPayloads(non_null_payloads) THEN "fanout_payloads"
            ELSE ""
    IN [err |-> err,
        to_address |-> primary_outputs[1].address,
        amounts |-> AmountsOf(primary_outputs),
        fee |-> fanout_fee,
        script_plane |-> steps[1].script_plane,
        op_return_data |->
            IF non_null_payloads # <<>>
            THEN PayloadList(non_null_payloads[1]) ELSE <<>>]

BuilderCall(fn, inputs, outputs, fee, op_return_data, script_plane, step) ==
    [fn |-> fn, inputs |-> inputs, outputs |-> outputs, fee |-> fee,
     op_return_data |-> op_return_data, script_plane |-> script_plane,
     step |-> step]

\* The wallet after the node accepted a transaction spending inputs.
Spend(utxos, inputs) ==
    SelectSeq(utxos, LAMBDA u :
        ~\E i \in 1..Len(inputs) :
            inputs[i].txid = u.txid /\ inputs[i].vout = u.vout)

\* broadcast_pattern_plan up to its first call to the builder: the payload
\* count check, then either the checks of the single_tx branch or the start
\* of the chained loop.
BroadcastStart ==
    /\ pc = "planned"
    /\ \E single_tx \in BOOLEAN, op \in OpReturnChoices(Len(plan)) :
       \E pacing \in PacingChoices(single_tx) :
         /\ params' = [single_tx |-> single_tx, op_returns |-> op,
                       min_confirmations_between_steps |-> pacing[1],
                       wait_between_txs |-> pacing[2],
                       max_wait_seconds |-> pacing[3]]
         /\ IF op.given /\ Len(op.values) # Len(plan)
            THEN pc' = "failed" /\ error' = "op_return_count"
            ELSE IF plan = <<>>
            THEN pc' = "done" /\ error' = ""
            ELSE IF single_tx
            THEN LET chk == FanoutCheck(plan, op)
                 IN IF chk.err # ""
                    THEN pc' = "failed" /\ error' = chk.err
                    ELSE pc' = "fanout" /\ error' = ""
            ELSE pc' = "send" /\ error' = ""
    /\ index' = 1
    /\ previous_change_ref' = NoRef
    /\ UNCHANGED <<wallet, addresses_issued, request, plan_result, plan, txids,
                   calls, ledger, polls, last_response, sleeps, waited>>
    /\ UNCHANGED <<api_call, api_return, automation, chain_height, current_height, poll_seconds>>

\* The single_tx branch: one call to send_multi_output_tx, which selects
\* its own inputs, merges the amounts per address, adds change and sends.
\* tx is what the builder makes of the arguments chk.
FanoutBroadcast(chk, tx) ==
    /\ calls' = Append(calls,
                       BuilderCall("send_multi_output_tx", <<>>,
                                   [i \in 1..Len(chk.amounts) |->
                                       PatternOutput(chk.to_address, chk.amounts[i])],
                                   chk.fee, chk.op_return_data, chk.script_plane, 0))
    /\ IF ~tx.ok
       THEN /\ pc' = "failed"
            /\ error' = tx.err
            /\ UNCHANGED <<wallet, addresses_issued, txids, ledger>>
       ELSE \E accepted \in BOOLEAN :
              /\ addresses_issued' = addresses_issued + tx.new_addresses
              /\ IF accepted
                 THEN /\ ledger' = Append(ledger,
                             [txid |-> StubTxids[Len(ledger) + 1],
                              inputs |-> tx.inputs,
                              outputs |-> FormatOutputs(tx.outputs,
                                                        chk.op_return_data)])
                      /\ txids' = Append(txids, StubTxids[Len(ledger) + 1])
                      /\ wallet' = Spend(wallet, tx.inputs)
                      /\ pc' = "done"
                      /\ error' = ""
                 ELSE /\ pc' = "failed"
                      /\ error' = "send_failed"
                      /\ UNCHANGED <<wallet, txids, ledger>>

FanoutBuild(chk) ==
    FanoutBroadcast(chk, send_multi_output_tx(wallet, addresses_issued,
                                              chk.to_address, chk.amounts,
                                              FloatOfUnits(chk.fee)))

FanoutSend ==
    /\ pc = "fanout"
    /\ FanoutBuild(FanoutCheck(plan, params.op_returns))
    /\ UNCHANGED <<request, plan_result, plan, params, index,
                   previous_change_ref, polls, last_response, sleeps, waited>>
    /\ UNCHANGED <<api_call, api_return, automation, chain_height, current_height, poll_seconds>>

PollInterval_NoDefault(wait_between_txs) == wait_between_txs

\* poll_interval = wait_between_txs if wait_between_txs > 0 else 5.0
PollInterval(wait_between_txs) ==
    IF wait_between_txs > 0 THEN wait_between_txs ELSE DEFAULT_POLL_INTERVAL

\* if max_wait_seconds is not None and waited >= max_wait_seconds: raise
TimedOut_Strict(waited_, max_wait_seconds) ==
    max_wait_seconds # NoLimit /\ waited_ > max_wait_seconds

TimedOut(waited_, max_wait_seconds) ==
    max_wait_seconds # NoLimit /\ waited_ >= max_wait_seconds

\* What the coordinator does when tx_builder.send_payment_tx raises: there
\* is no handler around the call, the exception ends broadcast_pattern_plan.
OnSendFailure_Retry == [pc |-> "send", error |-> ""]

OnSendFailure == [pc |-> "failed", error |-> "send_failed"]

PollsOfStep(i) == SelectSeq(polls, LAMBDA p : p.step = i)

\* "waited = 0.0" at the start of _wait_for_confirmations: the counter of a
\* step starts afresh, whatever the wait before it left (carried).
WaitedAtStart_Carried(carried) == carried

WaitedAtStart(carried) == 0

\* One iteration of the chained loop up to and including the builder call:
\* resolve the inputs, order the outputs, send, record the txid and the
\* change reference, then decide what follows the step.
SendStep ==
    /\ pc = "send"
    /\ LET step == plan[index]
           res == _resolve_chained_inputs(step.inputs, previous_change_ref)
           ordered_outputs == DictFromOutputs(<<>>, step.outputs)
           change_index == Len(ordered_outputs)
           with_change ==
               IF step.change_output.present
               THEN DictSet(ordered_outputs, step.change_output.address,
                            step.change_output.amount)
               ELSE ordered_outputs
           payload == IF params.op_returns.given
                      THEN params.op_returns.values[index] ELSE ""
           payload_list == PayloadList(payload)
           is_last_step == (index = Len(plan))
       IN IF ~res.ok
          THEN /\ pc' = "failed"
               /\ error' = "unresolved_input"
               /\ UNCHANGED <<wallet, index, previous_change_ref, txids, calls,
                              ledger, sleeps, waited>>
          ELSE \E accepted \in BOOLEAN :
                 /\ calls' = Append(calls,
                        BuilderCall("send_payment_tx", res.rpc_inputs,
                                    with_change, step.fee, payload_list,
                                    step.script_plane, index))
                 /\ IF ~accepted
                    THEN /\ pc' = OnSendFailure.pc
                         /\ error' = OnSendFailure.error
                         /\ UNCHANGED <<wallet, index, previous_change_ref,
                                        txids, ledger, sleeps, waited>>
                    ELSE LET txid == StubTxids[Len(ledger) + 1]
                             ref == IF step.change_output.present
                                    THEN [set |-> TRUE, txid |-> txid,
                                          vout |-> change_index]
                                    ELSE NoRef
                             gated ==
                                 params.min_confirmations_between_steps > 0
                         IN /\ ledger' = Append(ledger,
                                   [txid |-> txid, inputs |-> res.rpc_inputs,
                                    outputs |-> FormatOutputs(with_change,
                                                              payload_list)])
                            /\ wallet' = Spend(wallet, res.rpc_inputs)
                            /\ txids' = Append(txids, txid)
                            /\ previous_change_ref' = ref
                            /\ waited' = WaitedAtStart(waited)
                            /\ IF is_last_step
                               THEN /\ pc' = "done" /\ error' = ""
                                    /\ UNCHANGED <<index, sleeps>>
                               ELSE IF ~ref.set
                               THEN /\ pc' = "failed" /\ error' = "chain_ended"
                                    /\ UNCHANGED <<index, sleeps>>
                               ELSE IF gated
                               THEN /\ pc' = "wait" /\ error' = ""
                                    /\ UNCHANGED <<index, sleeps>>
                               ELSE /\ pc' = "send" /\ error' = ""
                                    /\ index' = index + 1
                                    /\ sleeps' =
                                         IF params.wait_between_txs > 0
                                         THEN Append(sleeps,
                                                [step |-> index, seconds |->
                                                   params.wait_between_txs])
                                         ELSE sleeps
    /\ UNCHANGED <<addresses_issued, request, plan_result, plan, params, polls,
                   last_response>>
    /\ UNCHANGED <<api_call, api_return, automation, chain_height, current_height, poll_seconds>>

\* One iteration of the while loop of _wait_for_confirmations for the step
\* just sent: poll, return when deep enough, raise when the budget is used
\* up, otherwise sleep one interval and count it.
Poll ==
    /\ pc = "wait"
    /\ Len(PollsOfStep(index)) < MaxPolls
    /\ \E resp \in PollResponses :
         LET confirmations == _query_confirmations(resp)
             poll_interval == PollInterval(params.wait_between_txs)
         IN /\ polls' = Append(polls, [step |-> index, depth |-> confirmations])
            /\ last_response' = resp
            /\ IF confirmations >= params.min_confirmations_between_steps
               THEN /\ pc' = "send"
                    /\ index' = index + 1
                    /\ UNCHANGED <<sleeps, waited, error>>
               ELSE IF TimedOut(waited, params.max_wait_seconds)
               THEN /\ pc' = "failed"
                    /\ error' = "timeout"
                    /\ UNCHANGED <<index, sleeps, waited>>
               ELSE /\ sleeps' = Append(sleeps, [step |-> index,
                                                 seconds |-> poll_interval])
                    /\ waited' = waited + poll_interval
                    /\ UNCHANGED <<pc, index, error>>
    /\ UNCHANGED <<wallet, addresses_issued, request, plan_result, plan, params,
                   previous_change_ref, txids, calls, ledger>>
    /\ UNCHANGED <<api_call, api_return, automation, chain_height, current_height, poll_seconds>>

Next ==
    \/ PlanExplicitPattern
    \/ SubmitPlan
    \/ BroadcastStart
    \/ FanoutSend
    \/ SendStep
    \/ Poll

Spec == Init /\ [][Next]_vars

\* ================================================================ claims
\* The state right after a call of plan_explicit_pattern returned or raised.
JustPlanned ==
    pc \in {"planned", "plan_failed"} /\ plan_result.err # "not_called"

PositiveAmounts(amounts) == \A i \in 1..Len(amounts) : amounts[i] > 0

RECURSIVE QuantizedSum(_)
QuantizedSum(amounts) ==
    IF amounts = <<>> THEN 0
    ELSE Quantize(Head(amounts)) + QuantizedSum(Tail(amounts))

\* The request is well formed and minimum-covering selection over the wallet
\* covers sum(amounts) + fee * count.
SelectionSucceeds ==
    /\ request.amounts # <<>>
    /\ PositiveAmounts(request.amounts)
    /\ request.fee >= 0
    /\ LET required == QuantizedSum(request.amounts)
                       + request.fee * Len(request.amounts)
           sorted == SortDesc(Spendable(wallet))
       IN \E k \in 1..Len(sorted) :
             SumSeq(AmountsOf(SubSeq(sorted, 1, k))) >= required

ChangeOf(step) ==
    IF step.change_output.present THEN step.change_output.amount ELSE 0

\* inputs_total - (outputs_total + change + fee) of one step.
Imbalance(step) ==
    SumSeq(AmountsOf(step.inputs))
    - (SumSeq(AmountsOf(step.outputs)) + ChangeOf(step) + step.fee)

\* C1 (as stated): whenever the request is well formed and selection
\* succeeds, plan_explicit_pattern returns a sequence with exactly one step
\* per amount and every step balances exactly:
\* sum(inputs) = sum(value outputs) + change + fee.
C1_Original ==
    (JustPlanned /\ SelectionSucceeds) =>
        /\ plan_result.ok
        /\ Len(plan) = Len(request.amounts)
        /\ \A i \in 1..Len(plan) : Imbalance(plan[i]) = 0

\* C1 (amended): every sequence plan_explicit_pattern returns has exactly one
\* step per amount, and every step balances up to the truncation of its
\* change: 0 <= sum(inputs) - (sum(value outputs) + change + fee) < 1e-8,
\* with equality when the fee is a multiple of 1e-8.
C1_StepsBalance ==
    (JustPlanned /\ plan_result.ok) =>
        /\ Len(plan) = Len(request.amounts)
        /\ \A i \in 1..Len(plan) :
              /\ Imbalance(plan[i]) >= 0
              /\ Imbalance(plan[i]) < EIGHT_DP
              /\ (request.fee % EIGHT_DP = 0 => Imbalance(plan[i]) = 0)

\* A returned three-step plan with a fee of nine fractional digits, a step
\* funded by two wallet UTXOs and steps that do not balance exactly.
C1_Witness ==
    /\ JustPlanned /\ plan_result.ok
    /\ Len(plan) = 3
    /\ Len(plan[1].inputs) >= 2
    /\ request.fee % EIGHT_DP # 0
    /\ \A i \in 1..3 : Imbalance(plan[i]) = 1

\* The change the cascade leaves after step i (1-based) of the request,
\* computed from the selected total rather than step by step.
RECURSIVE CascadeChange(_, _, _, _)
CascadeChange(total, amounts, fee, i) ==
    IF i = 0 THEN total
    ELSE Quantize(CascadeChange(total, amounts, fee, i - 1)
                  - Quantize(amounts[i]) - fee)

SelectedTotal ==
    LET required == QuantizedSum(request.amounts)
                    + request.fee * Len(request.amounts)
        sorted == SortDesc(Spendable(wallet))
        k == CHOOSE k \in 1..Len(sorted) :
                /\ SumSeq(AmountsOf(SubSeq(sorted, 1, k))) >= required
                /\ \A j \in 1..(k - 1) :
                      SumSeq(AmountsOf(SubSeq(sorted, 1, j))) < required
    IN SumSeq(AmountsOf(SubSeq(sorted, 1, k)))

\* Some non-final step of the request would leave a change that is positive
\* but below the dust limit.
IntermediateDust ==
    \E i \in 1..(Len(request.amounts) - 1) :
        LET c == CascadeChange(SelectedTotal, request.amounts, request.fee, i)
        IN c > 0 /\ c < DUST_LIMIT

\* C2: in every returned sequence each non-final step's change is 0 or at
\* least DUST_LIMIT, and a request whose cascade leaves a positive sub-dust
\* change on a non-final step raises PlanningError and returns no plan.
C2_NoIntermediateDust ==
    JustPlanned =>
        /\ plan_result.ok =>
              \A i \in 1..(Len(plan) - 1) :
                  ChangeOf(plan[i]) = 0 \/ ChangeOf(plan[i]) >= DUST_LIMIT
        /\ (SelectionSucceeds /\ IntermediateDust) =>
              (~plan_result.ok /\ plan = <<>>)

\* The dust chain of the test suite was rejected: 0.0003 DGB funding 0.0002
\* and 0.00002 DGB at fee 0.00001 leaves 0.00009 DGB after the first step.
C2_Witness ==
    /\ JustPlanned /\ SelectionSucceeds /\ IntermediateDust
    /\ request.amounts = <<40000, 4000>>
    /\ request.fee = 2000
    /\ plan_result.err = "dust"

\* The worked scenario: 1.0, 2.0, 3.0 DGB at fee 0.1 against 4.0, 3.0, 2.0.
Scenario3 ==
    /\ JustPlanned
    /\ request.amounts = <<COIN, 2 * COIN, 3 * COIN>>
    /\ request.fee = 20000000
    /\ {wallet[i].amount : i \in 1..Len(wallet)} = {4 * COIN, 3 * COIN, 2 * COIN}
    /\ \A i \in 1..Len(wallet) : wallet[i].spendable

\* C3 (as stated): in the scenario the second step's change is 2.9 DGB and
\* planning fails with insufficient funds at the third step.
C3_Original ==
    Scenario3 => (~plan_result.ok /\ plan_result.err = "insufficient_funds")

\* C3 (amended): in the scenario selection picks exactly {4.0, 3.0}; step 1
\* pays 1.0 with change 5.9, step 2 pays 2.0 with change 3.8, step 3 pays
\* 3.0 with change 0.7 (3.8 >= 3.0 + 0.1), and the plan is returned.
C3_ScenarioPlan ==
    Scenario3 =>
        /\ plan_result.ok
        /\ Len(plan) = 3
        /\ AmountsOf(plan[1].inputs) = <<4 * COIN, 3 * COIN>>
        /\ AmountsOf(plan[1].outputs) = <<COIN>>
        /\ ChangeOf(plan[1]) = 1180000000
        /\ AmountsOf(plan[2].outputs) = <<2 * COIN>>
        /\ ChangeOf(plan[2]) = 760000000
        /\ AmountsOf(plan[3].outputs) = <<3 * COIN>>
        /\ ChangeOf(plan[3]) = 140000000

C3_Witness == Scenario3 /\ plan_result.ok /\ Len(plan) = 3

\* broadcast_pattern_plan is past its payload-count check, in chained mode.
Chained ==
    /\ pc \in {"send", "wait", "done", "failed"}
    /\ ~params.single_tx
    /\ error # "op_return_count"

SleepsOfStep(i) == SelectSeq(sleeps, LAMBDA sl : sl.step = i)

IsPlaceholder(input) == input.txid = PREVIOUS_CHANGE_SENTINEL

\* 0-based position of the step's change output among the outputs of the
\* transaction the node accepted for it.
ChangePosition(tx, step) ==
    (CHOOSE i \in 1..Len(tx.outputs) :
        /\ tx.outputs[i].kind = "pay"
        /\ tx.outputs[i].address = step.change_output.address) - 1

\* C4: in chained mode the builder's send is called once per step in plan
\* order, the call for step i+1 is made only after the call for step i
\* returned its txid, every placeholder input of a step i > 1 is passed as
\* (txid returned by step i-1, output index of step i-1's change output),
\* and the returned list holds one txid per step in plan order.
C4_ChainedCalls ==
    Chained =>
        /\ \A k \in 1..Len(calls) :
              /\ calls[k].fn = "send_payment_tx"
              /\ calls[k].step = k
              /\ Len(calls[k].inputs) = Len(plan[k].inputs)
        /\ Len(txids) <= Len(calls)
        /\ Len(calls) <= Len(txids) + 1
        /\ Len(ledger) = Len(txids)
        /\ \A k \in 1..Len(txids) : txids[k] = ledger[k].txid
        /\ \A k \in 1..Len(txids) : \A l \in 1..Len(txids) :
              k # l => txids[k] # txids[l]
        /\ pc = "done" => (Len(calls) = Len(plan) /\ Len(txids) = Len(plan))
        /\ \A k \in 2..Len(calls) : \A j \in 1..Len(plan[k].inputs) :
              IsPlaceholder(plan[k].inputs[j]) =>
                  calls[k].inputs[j] =
                      [txid |-> txids[k - 1],
                       vout |-> ChangePosition(ledger[k - 1], plan[k - 1])]

\* C5: whatever the sequence, no call to the builder carries the
\* placeholder txid: a placeholder is passed as the reference recorded from
\* the preceding step, and when there is none PlanningError is raised before
\* the builder is called for that step.
C5_NoSentinelReachesBuilder ==
    /\ \A k \in 1..Len(calls) : \A j \in 1..Len(calls[k].inputs) :
          calls[k].inputs[j].txid # PREVIOUS_CHANGE_SENTINEL
    /\ Chained =>
          \A k \in 1..Len(calls) : \A j \in 1..Len(plan[k].inputs) :
              IsPlaceholder(plan[k].inputs[j]) =>
                  (k >= 2 /\ calls[k].inputs[j].txid = ledger[k - 1].txid)
    /\ error = "unresolved_input" =>
          /\ pc = "failed"
          /\ Len(calls) = index - 1
          /\ ~previous_change_ref.set
          /\ \E j \in 1..Len(plan[index].inputs) :
                IsPlaceholder(plan[index].inputs[j])

\* A hand-built sequence whose first step already holds a placeholder was
\* refused before any call to the builder.
C5_Witness ==
    /\ error = "unresolved_input"
    /\ calls = <<>>
    /\ IsPlaceholder(plan[1].inputs[1])

Depths(ps) == [i \in 1..Len(ps) |-> ps[i].depth]

\* C6: with m = min_confirmations_between_steps > 0 the call for step i+1
\* follows a poll of step i that returned a depth >= m; each unsuccessful
\* poll is followed by exactly one sleep of wait_between_txs (5 seconds when
\* that is 0), so polls answering 0, 0, 1 with m = 1 give 3 polls and 2
\* sleeps; no poll or sleep is made for the last step.
C6_ConfirmationGating ==
    Chained =>
        LET m == params.min_confirmations_between_steps
            interval == IF params.wait_between_txs = 0
                        THEN 5 ELSE params.wait_between_txs
        IN /\ \A i \in 1..Len(polls) : polls[i].step < Len(plan)
           /\ \A i \in 1..Len(sleeps) : sleeps[i].step < Len(plan)
           /\ m > 0 =>
                 /\ \A k \in 2..Len(calls) :
                       LET ps == PollsOfStep(k - 1)
                       IN ps # <<>> /\ ps[Len(ps)].depth >= m
                 /\ \A k \in 1..Len(plan) :
                       LET ps == PollsOfStep(k)
                           ss == SleepsOfStep(k)
                       IN /\ \A i \in 1..Len(ss) : ss[i].seconds = interval
                          /\ Len(ss) = IF ps = <<>> THEN 0
                                       ELSE IF pc = "wait" /\ index = k
                                            THEN Len(ps)
                                            ELSE Len(ps) - 1
                          /\ (m = 1 /\ Depths(ps) = <<0, 0, 1>>) =>
                                /\ Len(ss) = 2
                                /\ \/ pc = "send" /\ index = k + 1
                                   \/ Len(calls) > k

\* Step 1 was polled three times (0, 0, 1) with m = 1, slept twice and the
\* builder was then called for step 2.
C6_Witness ==
    /\ Chained
    /\ params.min_confirmations_between_steps = 1
    /\ params.wait_between_txs = 0
    /\ Depths(PollsOfStep(1)) = <<0, 0, 1>>
    /\ Len(SleepsOfStep(1)) = 2
    /\ Len(calls) >= 2

\* ceil(max_wait_seconds / interval): the number of polls of one step that
\* are made while waited is still below max_wait_seconds.
PollsBeforeLimit(max_wait_seconds, interval) ==
    (max_wait_seconds + interval - 1) \div interval

\* C7 (as stated): if none of the polls of a non-final step i made before
\* waited reaches max_wait_seconds (there is at least one) observes the
\* required depth, the builder is never called for a step j > i.
C7_Original ==
    (Chained /\ params.min_confirmations_between_steps > 0
             /\ params.max_wait_seconds # NoLimit) =>
        LET m == params.min_confirmations_between_steps
            interval == IF params.wait_between_txs = 0
                        THEN 5 ELSE params.wait_between_txs
            n0 == PollsBeforeLimit(params.max_wait_seconds, interval)
        IN \A i \in 1..Len(txids) :
              (/\ i < Len(plan)
               /\ n0 >= 1
               /\ Len(PollsOfStep(i)) >= n0
               /\ \A j \in 1..n0 : PollsOfStep(i)[j].depth < m) =>
                  \A k \in 1..Len(calls) : calls[k].step <= i

\* The invariant part of C7 (amended).
C7_TimeoutState ==
    (Chained /\ params.min_confirmations_between_steps > 0) =>
        LET m == params.min_confirmations_between_steps
            interval == IF params.wait_between_txs = 0
                        THEN 5 ELSE params.wait_between_txs
            limited == params.max_wait_seconds # NoLimit
        IN /\ (pc = "wait" /\ PollsOfStep(index) # <<>> /\ limited) =>
                 waited - interval < params.max_wait_seconds
           /\ last_response.kind \in {"rpc_error", "unparsable"} =>
                 /\ polls[Len(polls)].depth = 0
                 /\ pc = "wait" \/ error = "timeout"
           /\ error = "timeout" =>
                 /\ pc = "failed"
                 /\ limited
                 /\ index < Len(plan)
                 /\ waited >= params.max_wait_seconds
                 /\ PollsOfStep(index) # <<>>
                 /\ \A j \in 1..Len(PollsOfStep(index)) :
                       PollsOfStep(index)[j].depth < m
                 /\ Len(calls) = index
                 /\ Len(ledger) = index
                 /\ \A k \in 1..index : ledger[k].txid = txids[k]

\* C7 (amended): if, while gating a non-final step i, a poll made once
\* waited has reached max_wait_seconds still observes less than the
\* required depth (a failing or unparsable query counting as depth 0, not as
\* an error), broadcast_pattern_plan raises PlanningError, the builder is
\* never called for a step j > i and the broadcasts of steps 1..i stay as
\* they are; a poll made at that moment that does observe the required
\* depth lets the chain continue.
C7_TimeoutAborts ==
    /\ []C7_TimeoutState
    /\ [][error = "timeout" =>
             (calls' = calls /\ ledger' = ledger /\ txids' = txids)]_vars

\* Step 1 of a longer chain timed out after three polls, the last of which
\* failed at the RPC level; its broadcast is still on the ledger.
C7_Witness ==
    /\ Chained
    /\ error = "timeout"
    /\ index = 1 /\ Len(plan) >= 2
    /\ last_response.kind = "rpc_error"
    /\ Len(PollsOfStep(1)) = 3
    /\ Len(ledger) = 1 /\ Len(calls) = 1

\* The invariant part of C8.
C8_SendFailureState ==
    Chained =>
        /\ \A k \in 1..Len(calls) : \A l \in 1..Len(calls) :
              k # l => calls[k].step # calls[l].step
        /\ error = "send_failed" =>
              /\ pc = "failed"
              /\ Len(calls) = index
              /\ calls[index].step = index
              /\ Len(ledger) = index - 1
              /\ Len(txids) = index - 1
              /\ \A k \in 1..(index - 1) : ledger[k].txid = txids[k]

\* C8: when the builder's send fails for step i the failure ends
\* broadcast_pattern_plan: step i is not sent again (each step is sent at
\* most once per run), no later step is sent, and the transactions of steps
\* 1..i-1 stay broadcast.
C8_SendFailureAborts ==
    /\ []C8_SendFailureState
    /\ [][/\ Len(ledger') >= Len(ledger)
          /\ SubSeq(ledger', 1, Len(ledger)) = ledger
          /\ error = "send_failed" => (calls' = calls /\ ledger' = ledger)]_vars

\* The send of step 2 failed after step 1 had been broadcast.
C8_Witness ==
    /\ Chained
    /\ error = "send_failed"
    /\ index = 2
    /\ Len(ledger) = 1
    /\ Len(calls) = 2

\* The outputs of a broadcast transaction that pay the address.
PaysTo(tx, address) ==
    SelectSeq(tx.outputs, LAMBDA o : o.kind = "pay" /\ o.address = address)

PaysElsewhere(tx, address) ==
    SelectSeq(tx.outputs, LAMBDA o : o.kind = "pay" /\ o.address # address)

\* C9: a sequence of N steps broadcast in single-transaction mode gives
\* exactly one transaction, with one value output per step (N value
\* outputs) whose amounts sum to the total of the steps' value outputs, and
\* at most one change output.
C9_FanoutOutputs ==
    (params.single_tx /\ pc = "done" /\ plan # <<>>) =>
        /\ Len(ledger) = 1
        /\ Len(calls) = 1
        /\ LET to_address == plan[1].outputs[1].address
               value_outputs == PaysTo(ledger[1], to_address)
           IN /\ Len(value_outputs) = Len(plan)
              /\ SumSeq(AmountsOf(value_outputs)) =
                     SumSeq([i \in 1..Len(plan) |-> plan[i].outputs[1].amount])
              /\ Len(PaysElsewhere(ledger[1], to_address)) <= 1

\* Steps that carry a payload in the op_returns argument.
PayloadSteps ==
    IF params.op_returns.given
    THEN {i \in 1..Len(params.op_returns.values) :
             params.op_returns.values[i] # ""}
    ELSE {}

\* C10: in single-transaction mode PlanningError is raised, with nothing
\* built or broadcast, whenever the primary outputs do not share one
\* address, or the fees differ, or more than one step carries a payload;
\* with at most one payload exactly that payload reaches the builder.
C10_FanoutRejections ==
    (params.single_tx /\ pc \in {"fanout", "done", "failed"} /\ plan # <<>>) =>
        /\ (\/ \E i \in 1..Len(plan) :
                  plan[i].outputs[1].address # plan[1].outputs[1].address
            \/ \E i \in 1..Len(plan) : plan[i].fee # plan[1].fee
            \/ Cardinality(PayloadSteps) > 1) =>
               /\ pc = "failed"
               /\ error \in PlanningErrors
               /\ calls = <<>>
               /\ ledger = <<>>
        /\ \A k \in 1..Len(calls) :
              /\ Cardinality(PayloadSteps) <= 1
              /\ calls[k].op_return_data =
                    IF PayloadSteps = {} THEN <<>>
                    ELSE <<params.op_returns.values[
                              CHOOSE i \in PayloadSteps : TRUE]>>

\* A uniform two-step sequence with a payload on both steps was refused
\* before the builder was called.
C10_Witness ==
    /\ params.single_tx
    /\ pc = "failed"
    /\ error = "fanout_payloads"
    /\ Len(plan) = 2
    /\ Cardinality(PayloadSteps) = 2
    /\ calls = <<>>

\* =================================================================== fees.py
\* Fee rates, and the numbers the node reports, are floats; sizes and fees
\* in satoshis are integers.
DEFAULT_FALLBACK_FEE_RATE_SATVB == FloatOfInt(10000)

\* A field of a JSON answer or an environment variable: missing (None), a
\* number (the float that json makes of it; for an environment variable,
\* text that float() reads as this number), text that float() rejects, the
\* empty string, or text in a JSON answer that float() reads as a number.
Absent == [kind |-> "absent", value |-> FloatZero]
Num(v) == [kind |-> "num", value |-> v]
Str == [kind |-> "str", value |-> FloatZero]
Empty == [kind |-> "empty", value |-> FloatZero]
NumText(v) == [kind |-> "numtext", value |-> v]

\* float(field) returns, and does not raise TypeError or ValueError.
Parses(field) == field.kind \in {"num", "numtext"}

\* Python truthiness of a field, as read by "a or b": a number other than
\* zero, or text that is not empty.
TruthyField(field) ==
    \/ field.kind = "num" /\ field.value.mant # <<>>
    \/ field.kind \in {"str", "numtext"}

\* An optional float: None, or a float.
NoFloat == [given |-> FALSE, value |-> FloatZero]
\* Python truthiness of an optional float, as read by "a or b".
TruthyFloat(o) == o.given /\ o.value # FloatZero

\* The literals 1e8 and 1.0
Float1e8 == FloatOfInt(100000000)
FloatOne == FloatOfInt(1)

\* float(rate) * 1e8 / 1000
dgb_per_kvb_to_sat_vb(rate) == FloatDiv(FloatMul(rate, Float1e8), <<1000>>)

\* int(math.ceil(fee_rate_sat_vb * vsize))
calculate_fee_sats(fee_rate_sat_vb, vsize) ==
    FloatCeil(FloatMul(fee_rate_sat_vb, FloatOfInt(vsize)))

\* estimate_resp.get("feerate") or estimate_resp.get("feeRate")
FieldOr(a, b) == IF TruthyField(a) THEN a ELSE b

\* Returns the rate (sat/vB) and its unit, or None.
_extract_estimate_rate(estimate_resp) ==
    IF estimate_resp.kind # "dict" THEN [rate |-> NoFloat, unit |-> "unknown"]
    ELSE LET rate_val == FieldOr(estimate_resp.feerate, estimate_resp.feeRate)
         IN IF ~Parses(rate_val) THEN [rate |-> NoFloat, unit |-> "unknown"]
            ELSE IF FloatLess(rate_val.value, FloatOne)
                 THEN [rate |-> Some(dgb_per_kvb_to_sat_vb(rate_val.value)),
                       unit |-> "dgb/kvb"]
                 ELSE [rate |-> Some(rate_val.value), unit |-> "sat/vb"]

\* One (label, rate) entry of a floor list, when the field parses.
FloorEntry(label, field) ==
    IF Parses(field) THEN <<[label |-> label, rate |-> dgb_per_kvb_to_sat_vb(field.value)]>>
    ELSE <<>>

RECURSIVE MaxRate(_)
MaxRate(floors) ==
    IF Len(floors) = 1 THEN floors[1].rate
    ELSE LET m == MaxRate(Tail(floors))
         IN IF ~FloatLess(floors[1].rate, m) THEN floors[1].rate ELSE m

\* Returns (max_floor, floors) from getmempoolinfo and getnetworkinfo.
\* max_floor = max(rate for _, rate in floors) if floors else None
PolicyFloor(floors) ==
    IF floors = <<>> THEN [max_floor |-> NoFloat, floors |-> <<>>]
    ELSE [max_floor |-> Some(MaxRate(floors)), floors |-> floors]

_policy_floor_from_rpc(rpc_client) ==
    PolicyFloor(
        (IF rpc_client.getmempoolinfo.kind = "dict"
         THEN FloorEntry("mempoolminfee", rpc_client.getmempoolinfo.mempoolminfee)
         ELSE <<>>)
        \o (IF rpc_client.getnetworkinfo.kind = "dict"
            THEN FloorEntry("incrementalfee", rpc_client.getnetworkinfo.incrementalfee)
                 \o FloorEntry("relayfee", rpc_client.getnetworkinfo.relayfee)
                 \o FloorEntry("minrelaytxfee", rpc_client.getnetworkinfo.minrelaytxfee)
            ELSE <<>>))

\* os.environ.get(name), parsed with float(); an invalid value is ignored.
_env_override(raw) == IF Parses(raw) THEN Some(raw.value) ELSE NoFloat

\* if raw is not None: floor_candidates.append((label, float(raw)))
Candidate(label, raw) ==
    IF raw.given THEN <<[label |-> label, rate |-> raw.value]>> ELSE <<>>

\* if floor_value is not None and fee_rate < floor_value: fee_rate = floor_value
ApplyFloor_Reversed(fee_rate, floor_value) ==
    IF floor_value.given /\ FloatLess(floor_value.value, fee_rate)
    THEN floor_value.value ELSE fee_rate

ApplyFloor(fee_rate, floor_value) ==
    IF floor_value.given /\ FloatLess(fee_rate, floor_value.value)
    THEN floor_value.value ELSE fee_rate

\* user_fee_rate_satvb or min_fee_rate_satvb_floor
\*   or _env_override(ENV_FALLBACK_FEE_RATE) or fallback_fee_rate_satvb
\*   or DEFAULT_FALLBACK_FEE_RATE_SATVB
FallbackRate(user_fee_rate_satvb, min_fee_rate_satvb_floor, env_fallback, fallback_fee_rate_satvb) ==
    IF TruthyFloat(user_fee_rate_satvb) THEN user_fee_rate_satvb.value
    ELSE IF TruthyFloat(min_fee_rate_satvb_floor)
    THEN min_fee_rate_satvb_floor.value
    ELSE IF TruthyFloat(env_fallback) THEN env_fallback.value
    ELSE IF TruthyFloat(fallback_fee_rate_satvb)
    THEN fallback_fee_rate_satvb.value
    ELSE DEFAULT_FALLBACK_FEE_RATE_SATVB

\* if max_fee_sats is not None and selection.fee_sats is not None
\*    and selection.fee_sats > max_fee_sats: raise ValueError
OverCap_Ignored(fee_sats, max_fee_sats) == FALSE

OverCap(fee_sats, max_fee_sats) ==
    max_fee_sats.given /\ fee_sats.given /\ fee_sats.value > max_fee_sats.value

\* floor_candidates: the environment floor, the caller's floor, the policy
\* components and the policy floor, in this order.
FloorCandidates(env_floor, min_fee_rate_satvb_floor, policy) ==
    Candidate("env", env_floor)
    \o Candidate("cli_floor", min_fee_rate_satvb_floor)
    \o policy.floors
    \o Candidate("policy_floor", policy.max_floor)

\* The rate before the floor and its source: the user's rate, else the
\* estimate est, else the fallback.
ChosenRate(env, args, est) ==
    IF args.user_fee_rate_satvb.given
    THEN [fee_rate |-> args.user_fee_rate_satvb.value, source |-> "user"]
    ELSE IF est.rate.given
    THEN [fee_rate |-> est.rate.value,
          source |-> IF est.unit = "dgb/kvb" THEN "estimatesmartfee[dgb/kvb]"
                     ELSE "estimatesmartfee[sat/vb]"]
    ELSE [fee_rate |-> FallbackRate(args.user_fee_rate_satvb,
                                    args.min_fee_rate_satvb_floor,
                                    _env_override(env.fallback_fee_rate),
                                    args.fallback_fee_rate_satvb),
          source |-> "fallback"]

\* select_fee_rate from "floor_value = max(...)" on.
FeeSelection(args, floor_candidates, chosen) ==
    LET floor_value ==
            IF floor_candidates = <<>> THEN NoFloat
            ELSE Some(MaxRate(floor_candidates))
        floors_applied ==
            SelectSeq(floor_candidates, LAMBDA c : c.rate = floor_value.value)
        fee_rate == ApplyFloor(chosen.fee_rate, floor_value)
        sized == Truthy(args.tx_vsize_estimate)
        fee_sats == IF sized
                    THEN Some(calculate_fee_sats(fee_rate, args.tx_vsize_estimate.value))
                    ELSE None
    IN IF OverCap(fee_sats, args.max_fee_sats)
       THEN [ok |-> FALSE, err |-> "ValueError", fee_rate_sat_vb |-> FloatZero,
             source |-> "", floors_applied |-> <<>>, fee_sats |-> None,
             vsize |-> None]
       ELSE [ok |-> TRUE, err |-> "", fee_rate_sat_vb |-> fee_rate,
             source |-> chosen.source, floors_applied |-> floors_applied,
             fee_sats |-> fee_sats,
             vsize |-> IF sized THEN args.tx_vsize_estimate ELSE None]

\* select_fee_rate(rpc_client, **args) with the environment env.
select_fee_rate(env, rpc_client, args) ==
    FeeSelection(args,
                 FloorCandidates(_env_override(env.min_fee_rate_floor),
                                 args.min_fee_rate_satvb_floor,
                                 _policy_floor_from_rpc(rpc_client)),
                 ChosenRate(env, args,
                            IF args.user_fee_rate_satvb.given
                            THEN [rate |-> NoFloat, unit |-> "unknown"]
                            ELSE _extract_estimate_rate(rpc_client.estimatesmartfee)))


\* ----------------------------------------------------- fee selector inputs
\* ENIGMATIC_MIN_FEE_RATE_SATVB (unset or 5 sat/vB) and
\* ENIGMATIC_FALLBACK_FEE_RATE_SATVB (unset, 200 sat/vB, or not a number).
FeeEnvs ==
    [min_fee_rate_floor : {Absent, Num(FloatOfInt(5))},
     fallback_fee_rate : {Absent, Num(FloatOfInt(200)), Str}]

\* getmempoolinfo: fails, or answers with mempoolminfee missing, 0.0001
\* DGB/kvB, or unparsable.
MempoolAnswers ==
    {[kind |-> "rpc_error", mempoolminfee |-> Absent]}
    \cup [kind : {"dict"}, mempoolminfee : {Absent, Num(FloatOfDecimal(1, 4)), Str}]

\* getnetworkinfo: fails, or answers with any of incrementalfee (0.00001),
\* relayfee (0.00002) and minrelaytxfee (0.00004 DGB/kvB).
NetworkAnswers ==
    {[kind |-> "rpc_error", incrementalfee |-> Absent, relayfee |-> Absent,
      minrelaytxfee |-> Absent]}
    \cup [kind : {"dict"},
          incrementalfee : {Absent, Num(FloatOfDecimal(1, 5))},
          relayfee : {Absent, Num(FloatOfDecimal(2, 5))},
          minrelaytxfee : {Absent, Num(FloatOfDecimal(4, 5))}]

\* estimatesmartfee: fails, {}, feerate 0.00002 DGB/kvB, feeRate 7.0 (taken
\* as sat/vB), feerate 0, an unparsable feerate, feerate '' beside feeRate
\* 7.0, or feerate '0.0' beside feeRate 7.0.
EstimateFails == [kind |-> "rpc_error", feerate |-> Absent, feeRate |-> Absent]
EstimateLow ==
    [kind |-> "dict", feerate |-> Num(FloatOfDecimal(2, 5)), feeRate |-> Absent]

EstimateAnswers ==
    {EstimateFails,
     [kind |-> "dict", feerate |-> Absent, feeRate |-> Absent],
     EstimateLow,
     [kind |-> "dict", feerate |-> Absent, feeRate |-> Num(FloatOfInt(7))],
     [kind |-> "dict", feerate |-> Num(FloatZero), feeRate |-> Absent],
     [kind |-> "dict", feerate |-> Str, feeRate |-> Absent],
     [kind |-> "dict", feerate |-> Empty, feeRate |-> Num(FloatOfInt(7))],
     [kind |-> "dict", feerate |-> NumText(FloatZero), feeRate |-> Num(FloatOfInt(7))]}

\* Keyword arguments: user rate (none, 0, 100.5 sat/vB), caller floor (none,
\* 0, 3 sat/vB), fallback (none, 500 sat/vB), size (none, 0, 3 vB) and cap
\* (none, 302 sat).
FeeArgs ==
    [user_fee_rate_satvb : {NoFloat, Some(FloatZero), Some(FloatOfDecimal(1005, 1))},
     min_fee_rate_satvb_floor : {NoFloat, Some(FloatZero), Some(FloatOfInt(3))},
     fallback_fee_rate_satvb : {NoFloat, Some(FloatOfInt(500))},
     tx_vsize_estimate : {None, Some(0), Some(3)},
     max_fee_sats : {None, Some(302)}]

\* Calls that put every combination of floor sources (environment floor,
\* caller floor, mempoolminfee, incrementalfee, relayfee, minrelaytxfee)
\* under each rate source (user rate, estimate, fallback), with and without
\* a size and a cap.
FloorCalls ==
    [env : {e \in FeeEnvs : e.fallback_fee_rate = Absent},
     rpc_client : [getmempoolinfo : MempoolAnswers,
                   getnetworkinfo : NetworkAnswers,
                   estimatesmartfee : {EstimateFails, EstimateLow}],
     args : {a \in FeeArgs : /\ a.user_fee_rate_satvb # Some(FloatZero)
                             /\ ~a.fallback_fee_rate_satvb.given
                             /\ a.tx_vsize_estimate # Some(0)}]

\* Calls that put every combination of rate sources (user rate, estimate,
\* caller floor, environment fallback, fallback argument), sizes and caps
\* against a node that reports no policy floor or a mempoolminfee.
RateCalls ==
    [env : FeeEnvs,
     rpc_client : [getmempoolinfo : {m \in MempoolAnswers :
                                        m.mempoolminfee.kind # "str"
                                        /\ (m.kind = "dict" =>
                                               m.mempoolminfee.kind = "num")},
                   getnetworkinfo : {n \in NetworkAnswers : n.kind = "rpc_error"},
                   estimatesmartfee : EstimateAnswers],
     args : FeeArgs]

FeeCalls == FloorCalls \cup RateCalls

\* Everything but the two harness variables.
coordinator_vars ==
    <<wallet, addresses_issued, pc, request, plan_result, plan, params, index,
      previous_change_ref, txids, calls, ledger, polls, last_response, sleeps,
      waited, error,
      automation, chain_height, current_height, poll_seconds>>

\* A caller selects a fee rate: select_fee_rate(rpc_client, ...).
SelectFeeRate ==
    /\ api_call = NoCall
    /\ \E c \in FeeCalls :
         /\ api_call' = [fn |-> "select_fee_rate", env |-> c.env,
                         rpc_client |-> c.rpc_client, args |-> c.args]
         /\ api_return' = select_fee_rate(c.env, c.rpc_client, c.args)
    /\ UNCHANGED coordinator_vars

\* Functions that read no wallet state are exercised against one wallet.
PureInit == Init /\ Len(wallet) = 1 /\ wallet[1].spendable

FeeNext == SelectFeeRate

FeeSpec == PureInit /\ [][FeeNext]_vars

\* ------------------------------------------------------------- claims C11..
FeeCalled == api_call.fn = "select_fee_rate"

\* The rates (sat/vB) of the floor sources that are present in a call.
FieldRates(present, field) ==
    IF present /\ field.kind = "num" THEN {dgb_per_kvb_to_sat_vb(field.value)} ELSE {}

PresentFloors ==
    LET rpc == api_call.rpc_client
        mp == rpc.getmempoolinfo
        ni == rpc.getnetworkinfo
    IN (IF api_call.env.min_fee_rate_floor.kind = "num"
        THEN {api_call.env.min_fee_rate_floor.value} ELSE {})
       \cup (IF api_call.args.min_fee_rate_satvb_floor.given
             THEN {api_call.args.min_fee_rate_satvb_floor.value} ELSE {})
       \cup FieldRates(mp.kind = "dict", mp.mempoolminfee)
       \cup FieldRates(ni.kind = "dict", ni.incrementalfee)
       \cup FieldRates(ni.kind = "dict", ni.relayfee)
       \cup FieldRates(ni.kind = "dict", ni.minrelaytxfee)

\* C11: the rate select_fee_rate returns is at least every floor candidate
\* that is present (environment floor, caller floor, mempoolminfee,
\* incrementalfee, relayfee, minrelaytxfee), whatever the rate source.
C11_FeeFloor ==
    (FeeCalled /\ api_return.ok) =>
        \A f \in PresentFloors : ~FloatLess(api_return.fee_rate_sat_vb, f)

\* The estimate (0.00002 DGB/kvB, about 2 sat/vB) is below the mempool
\* floor (0.0001 DGB/kvB, about 10 sat/vB) and the returned rate is the
\* floor.
C11_Witness ==
    /\ FeeCalled /\ api_return.ok
    /\ api_return.source = "estimatesmartfee[dgb/kvb]"
    /\ api_call.rpc_client.getmempoolinfo.kind = "dict"
    /\ api_call.rpc_client.getmempoolinfo.mempoolminfee.kind = "num"
    /\ api_call.rpc_client.estimatesmartfee.feerate = Num(FloatOfDecimal(2, 5))
    /\ api_return.fee_rate_sat_vb = dgb_per_kvb_to_sat_vb(FloatOfDecimal(1, 4))
    /\ FloatLess(FloatOfInt(9), api_return.fee_rate_sat_vb)

SetMax(S) == CHOOSE x \in S : \A y \in S : ~FloatLess(x, y)

ClampUp(rate, floors) ==
    IF floors # {} /\ FloatLess(rate, SetMax(floors)) THEN SetMax(floors)
    ELSE rate

\* The rate the stated priority picks: user rate, else the node estimate,
\* else the explicit fallback argument, else the environment fallback, else
\* the hardcoded default.
PriorityRate ==
    LET args == api_call.args
        est == _extract_estimate_rate(api_call.rpc_client.estimatesmartfee)
        env_fallback == api_call.env.fallback_fee_rate
    IN IF args.user_fee_rate_satvb.given THEN args.user_fee_rate_satvb.value
       ELSE IF est.rate.given THEN est.rate.value
       ELSE IF args.fallback_fee_rate_satvb.given
            THEN args.fallback_fee_rate_satvb.value
       ELSE IF env_fallback.kind = "num" THEN env_fallback.value
       ELSE DEFAULT_FALLBACK_FEE_RATE_SATVB

\* C12: select_fee_rate returns the rate chosen by strict priority (user
\* rate, else estimate, else explicit fallback argument, else environment
\* fallback, else default), raised to the floor when below it.
C12_RatePriority ==
    (FeeCalled /\ api_return.ok) =>
        api_return.fee_rate_sat_vb = ClampUp(PriorityRate, PresentFloors)

SizeSupplied == Truthy(api_call.args.tx_vsize_estimate)

\* The same call made without a cap.
Uncapped ==
    select_fee_rate(api_call.env, api_call.rpc_client,
                    [api_call.args EXCEPT !.max_fee_sats = None])

\* C13: with a transaction size, fee_sats = ceil(rate * vsize) for the
\* returned (floor-clamped) rate; with a cap as well, the call raises when
\* that fee exceeds the cap and otherwise returns the rate and fee it
\* returns without a cap (the rate is never lowered to fit).
C13_FeeAndCap ==
    (FeeCalled /\ SizeSupplied) =>
        LET vsize == api_call.args.tx_vsize_estimate.value
            cap == api_call.args.max_fee_sats
            free_fee == FloatCeil(FloatMul(Uncapped.fee_rate_sat_vb,
                                           FloatOfInt(vsize)))
        IN /\ api_return.ok =>
                /\ api_return.fee_sats =
                     Some(FloatCeil(FloatMul(api_return.fee_rate_sat_vb,
                                             FloatOfInt(vsize))))
                /\ api_return.fee_rate_sat_vb = Uncapped.fee_rate_sat_vb
                /\ \A f \in PresentFloors :
                      ~FloatLess(api_return.fee_rate_sat_vb, f)
                /\ cap.given => api_return.fee_sats.value <= cap.value
           /\ (cap.given /\ free_fee > cap.value) =>
                (~api_return.ok /\ api_return.err = "ValueError")
           /\ (~cap.given \/ free_fee <= cap.value) => api_return.ok

\* 500 sat/vB over 3 vB is 1500 sat, above the cap of 302 sat: the call
\* raises.
C13_Witness ==
    /\ FeeCalled /\ SizeSupplied
    /\ api_call.args.max_fee_sats = Some(302)
    /\ ~api_call.args.user_fee_rate_satvb.given
    /\ ~api_return.ok /\ api_return.err = "ValueError"


\* ============================================================ coin selection
\* candidates[:n], the slice of a list: its first n entries, or for a
\* negative n all but its last -n.
SliceTo(candidates, n) ==
    IF n >= 0
    THEN SubSeq(candidates, 1, IF n < Len(candidates) THEN n ELSE Len(candidates))
    ELSE SubSeq(candidates, 1, Len(candidates) + n)

\* SymbolPlanner._select_utxos: the slice candidates[:required_inputs] of
\* the spendable UTXOs sorted by amount descending, or an error.  The count
\* is only tested from above, so a required_inputs below 0 is sliced too.
_select_utxos(utxos, required_inputs, minimum_total) ==
    LET spendable == Spendable(utxos)
    IN IF Len(spendable) < required_inputs
       THEN [ok |-> FALSE, err |-> "too_few_utxos", selected |-> <<>>, total |-> 0]
       ELSE LET selected == SliceTo(SortDesc(spendable), required_inputs)
                total == SumSeq(AmountsOf(selected))
            IN IF total < minimum_total
               THEN [ok |-> FALSE, err |-> "selection_short",
                     selected |-> <<>>, total |-> 0]
               ELSE [ok |-> TRUE, err |-> "", selected |-> selected,
                     total |-> total]

MaxUtxos == 3
UtxoIds == <<"u1", "u2", "u3", "u4", "u5">>

\* listunspent answers of up to MaxUtxos entries of 0.5, 1 or 2 DGB, each
\* spendable or not.
UtxoLists ==
    UNION {{[i \in 1..k |-> Utxo(UtxoIds[i], i - 1, f[i][1], f[i][2])] :
                f \in [1..k -> {COIN \div 2, COIN, 2 * COIN} \X BOOLEAN]} :
           k \in 0..MaxUtxos}

\* 0.000000005, 1, 2, 3 and 5 DGB.
MinimumChoices == {1, COIN, 2 * COIN, 3 * COIN, 5 * COIN}

\* A caller runs minimum-covering selection.
SelectUtxosCoveringTotal ==
    /\ api_call = NoCall
    /\ \E utxos \in UtxoLists, minimum_total \in MinimumChoices :
         /\ api_call' = [fn |-> "_select_utxos_covering_total", utxos |-> utxos,
                         minimum_total |-> minimum_total]
         /\ api_return' = _select_utxos_covering_total(utxos, minimum_total)
    /\ UNCHANGED coordinator_vars

\* The counts a caller may ask for; a dialect's "m" is read with int() and
\* may be negative.
RequiredInputsChoices == (0 - 2)..MaxUtxos

\* A caller runs exact-N selection.
SelectUtxos ==
    /\ api_call = NoCall
    /\ \E utxos \in UtxoLists, required_inputs \in RequiredInputsChoices,
          minimum_total \in MinimumChoices :
         /\ api_call' = [fn |-> "_select_utxos", utxos |-> utxos,
                         required_inputs |-> required_inputs,
                         minimum_total |-> minimum_total]
         /\ api_return' = _select_utxos(utxos, required_inputs, minimum_total)
    /\ UNCHANGED coordinator_vars

SelectionNext == SelectUtxosCoveringTotal \/ SelectUtxos

SelectionSpec == PureInit /\ [][SelectionNext]_vars

\* ---------------------------------------------------------- claims C14, C15
Range(s) == {s[i] : i \in 1..Len(s)}

SpendableSet(utxos) == {u \in Range(utxos) : u.spendable}

RECURSIVE SumAmounts(_)
SumAmounts(S) ==
    IF S = {} THEN 0
    ELSE LET u == CHOOSE x \in S : TRUE IN u.amount + SumAmounts(S \ {u})

\* sel holds different spendable UTXOs of utxos, largest first, and no
\* spendable UTXO left out is larger than one taken.
LargestFirst(sel, utxos) ==
    /\ \A i \in 1..Len(sel) : sel[i] \in SpendableSet(utxos)
    /\ \A i, j \in 1..Len(sel) : i < j =>
          (sel[i] # sel[j] /\ sel[i].amount >= sel[j].amount)
    /\ \A u \in SpendableSet(utxos) \ Range(sel) :
          \A i \in 1..Len(sel) : u.amount <= sel[i].amount

\* C14: minimum-covering selection returns the shortest prefix of the
\* spendable UTXOs, largest first, whose total reaches the minimum, with
\* that exact total (without its last UTXO the total is below the minimum,
\* nothing non-spendable is taken), and raises when nothing is spendable
\* or everything spendable together is below the minimum.
C14_MinimumCovering ==
    api_call.fn = "_select_utxos_covering_total" =>
        LET utxos == api_call.utxos
            minimum == api_call.minimum_total
            sel == api_return.selected
            all == SumAmounts(SpendableSet(utxos))
        IN /\ api_return.ok =>
                /\ Len(sel) >= 1
                /\ LargestFirst(sel, utxos)
                /\ api_return.total = SumAmounts(Range(sel))
                /\ api_return.total >= minimum
                /\ api_return.total - sel[Len(sel)].amount < minimum
           /\ ~api_return.ok =>
                \/ SpendableSet(utxos) = {} /\ api_return.err = "no_spendable"
                \/ SpendableSet(utxos) # {} /\ all < minimum
                   /\ api_return.err = "selection_short"
           /\ (SpendableSet(utxos) # {} /\ all >= minimum) => api_return.ok

\* Two of three spendable UTXOs are taken, and a larger non-spendable one
\* is passed over.
C14_Witness ==
    /\ api_call.fn = "_select_utxos_covering_total"
    /\ api_return.ok
    /\ Len(api_return.selected) = 2
    /\ Cardinality(SpendableSet(api_call.utxos)) = 2
    /\ \E u \in Range(api_call.utxos) :
          ~u.spendable /\ u.amount > api_return.selected[1].amount

\* C15: exact-N selection returns exactly the N largest spendable UTXOs and
\* their total, and raises when fewer than N are spendable or when those N
\* are below the minimum, even if more UTXOs of the wallet would cover it.
C15_ExactN ==
    api_call.fn = "_select_utxos" =>
        LET utxos == api_call.utxos
            n == api_call.required_inputs
            minimum == api_call.minimum_total
            sel == api_return.selected
            few == Cardinality(SpendableSet(utxos)) < n
            \* the total of the n largest spendable UTXOs (of none when n
            \* is below 0)
            top == IF n < 0 THEN {}
                   ELSE CHOOSE T \in SUBSET SpendableSet(utxos) :
                            /\ Cardinality(T) = n
                            /\ \A u \in SpendableSet(utxos) \ T :
                                  \A v \in T : u.amount <= v.amount
            best == SumAmounts(top)
        IN /\ api_return.ok =>
                /\ Len(sel) = n
                /\ LargestFirst(sel, utxos)
                /\ api_return.total = SumAmounts(Range(sel))
                /\ api_return.total >= minimum
           /\ few => (~api_return.ok /\ api_return.err = "too_few_utxos")
           /\ (~few /\ best < minimum) =>
                (~api_return.ok /\ api_return.err = "selection_short")
           /\ (~few /\ best >= minimum) =>
                (api_return.ok /\ api_return.total = best)


\* ============================================================ SymbolPlanner
AutomationSymbol(value, fee, inputs, outputs, delta, frames, script_plane) ==
    [value |-> value, fee |-> fee, inputs |-> inputs, outputs |-> outputs,
     delta |-> delta, frames |-> frames, script_plane |-> script_plane]

\* amount of the branch numbered branch (0-based) of _distribute_change
BranchAmount(branch, branches, per_branch, change_amount, distributed) ==
    IF branch < branches - 1 THEN per_branch
    ELSE Quantize(change_amount - distributed)

\* The for loop of _distribute_change from the given branch on; nchg counts the
\* change addresses the wallet handed out before the call.
RECURSIVE DistributeLoop(_, _, _, _, _, _, _)
DistributeLoop(branch, branches, per_branch, change_amount, distributed, outputs, nchg) ==
    IF branch >= branches THEN outputs
    ELSE LET amount == BranchAmount(branch, branches, per_branch,
                                    change_amount, distributed)
         IN DistributeLoop(branch + 1, branches, per_branch, change_amount,
                           distributed + amount,
                           DictSet(outputs, getrawchangeaddress(nchg + branch),
                                   amount),
                           nchg)

\* SymbolPlanner._distribute_change(branches, change_amount)
_distribute_change(branches, change_amount, nchg) ==
    IF change_amount <= 0
    THEN [ok |-> TRUE, outputs |-> <<>>, new_addresses |-> 0]
    ELSE LET per_branch == Quantize(change_amount \div branches)
         IN IF per_branch < DUST_LIMIT
            THEN [ok |-> FALSE, outputs |-> <<>>, new_addresses |-> 0]
            ELSE [ok |-> TRUE,
                  outputs |-> DistributeLoop(0, branches, per_branch,
                                             change_amount, 0, <<>>, nchg),
                  new_addresses |-> branches]

RpcInputs(selected) ==
    [i \in 1..Len(selected) |-> [txid |-> selected[i].txid,
                                  vout |-> selected[i].vout]]

SymbolPlanError(err, rpc_calls) ==
    [ok |-> FALSE, err |-> err, inputs |-> <<>>, outputs |-> <<>>,
     change_amount |-> 0, fee |-> 0, block_target |-> None,
     enforce_block_target |-> FALSE, rpc_calls |-> rpc_calls]

\* SymbolPlanner.plan(symbol, receiver, block_target=...,
\* enforce_block_target=...) against a wallet whose listunspent answers utxos;
\* receiver "" stands for None.  rpc_calls lists the calls made to the node,
\* in order.
SymbolPlanner_plan(utxos, symbol, receiver, block_target, enforce_block_target) ==
    IF block_target.given /\ block_target.value <= CurrentHeight
    THEN SymbolPlanError("block_target", <<"getblockcount">>)
    ELSE
    LET target == IF block_target.given THEN block_target
                  ELSE IF symbol.delta > 0 THEN Some(CurrentHeight + symbol.delta)
                  ELSE None
        sel == _select_utxos(utxos, symbol.inputs, symbol.value + symbol.fee)
        asks_address == receiver = ""
        receiver_address == IF asks_address THEN getnewaddress(0) ELSE receiver
        calls0 == <<"getblockcount", "listunspent">>
                  \o (IF asks_address THEN <<"getnewaddress">> ELSE <<>>)
        change_amount == Quantize(sel.total - symbol.value - symbol.fee)
        branches == _distribute_change(symbol.outputs - 1, change_amount, 0)
        outputs ==
            IF symbol.outputs > 1
            THEN DictFromOutputs(<<PatternOutput(receiver_address, symbol.value)>>,
                                 branches.outputs)
            ELSE IF change_amount > 0
            THEN <<PatternOutput(receiver_address,
                                 Quantize(symbol.value + change_amount))>>
            ELSE <<PatternOutput(receiver_address, symbol.value)>>
    IN IF ~sel.ok
       THEN SymbolPlanError(sel.err, <<"getblockcount", "listunspent">>)
       ELSE IF symbol.outputs > 1 /\ change_amount <= 0
       THEN SymbolPlanError("empty_change_pool", calls0)
       ELSE IF symbol.outputs > 1 /\ ~branches.ok
       THEN SymbolPlanError("branch_dust", calls0)
       ELSE [ok |-> TRUE, err |-> "", inputs |-> RpcInputs(sel.selected),
             outputs |-> outputs,
             change_amount |-> IF symbol.outputs > 1 THEN change_amount ELSE 0,
             fee |-> symbol.fee, block_target |-> target,
             enforce_block_target |->
                 block_target.given \/ enforce_block_target,
             rpc_calls |->
                 calls0 \o (IF symbol.outputs > 1
                            THEN [i \in 1..branches.new_addresses |->
                                      "getrawchangeaddress"]
                            ELSE <<>>)]


\* ------------------------------------------------- SymbolPlanner.plan_chain
\* AutomationFrame(value=..., fee=..., inputs=...): script_plane keeps its
\* default, None.
AutomationFrame(value, fee, inputs) ==
    [value |-> value, fee |-> fee, inputs |-> inputs,
     script_plane |-> NoScriptPlane]

\* A frame whose configuration declares a script_plane block.
FrameWithPlane(frame, script_plane) ==
    [frame EXCEPT !.script_plane = script_plane]

\* tx_script_plane = frame.script_plane or symbol.script_plane
TxScriptPlane(frame, symbol_plane) ==
    IF frame.script_plane # NoScriptPlane THEN frame.script_plane
    ELSE symbol_plane

PlannedTx(inputs, to_output, change_output, fee, script_plane) ==
    [inputs |-> inputs, to_output |-> to_output,
     change_output |-> change_output, fee |-> fee, script_plane |-> script_plane]

ChainError(err, rpc_calls) ==
    [ok |-> FALSE, err |-> err, to_address |-> "", transactions |-> <<>>,
     initial_utxos |-> <<>>, block_target |-> None,
     enforce_block_target |-> FALSE, rpc_calls |-> rpc_calls]

\* AutomationFrame(value=frame.value.quantize(...),
\*                 fee=(frame.fee or symbol.fee).quantize(...), ...)
NormalizeFrame(frame, symbol) ==
    AutomationFrame(Quantize(frame.value),
                    Quantize(IF Truthy(frame.fee) THEN frame.fee.value
                             ELSE symbol.fee),
                    frame.inputs)

\* sum(frame.value + frame.fee for frame in frames)
RECURSIVE FramesTotal(_)
FramesTotal(frames) ==
    IF frames = <<>> THEN 0
    ELSE Head(frames).value + Head(frames).fee + FramesTotal(Tail(frames))

\* The inputs of the transaction of frame k (0-based).
ChainInputs_Reselect(k, selected_inputs, previous_change_amount) ==
    selected_inputs

ChainInputs(k, selected_inputs, previous_change_amount) ==
    IF k = 0 THEN selected_inputs
    ELSE <<PatternInput(PREVIOUS_CHANGE_SENTINEL, 1, previous_change_amount.value)>>

\* if index < len(normalized_frames) - 1 and change_amount < DUST_LIMIT: raise
IntermediateChangeTooSmall_OffByOne(k, n, change_amount) ==
    k < n - 2 /\ change_amount < DUST_LIMIT

IntermediateChangeTooSmall(k, n, change_amount) ==
    k < n - 1 /\ change_amount < DUST_LIMIT

\* to_output of a frame: the value, plus a change that is positive but
\* below the dust limit (planner.py: the else branch of
\* "if change_amount >= DUST_LIMIT").
ChainToOutput_NoFold(to_address, value, change_amount) ==
    PatternOutput(to_address, value)

ChainToOutput(to_address, value, change_amount) ==
    IF change_amount < DUST_LIMIT /\ change_amount > 0
    THEN PatternOutput(to_address, Quantize(value + change_amount))
    ELSE PatternOutput(to_address, value)

\* "for index, frame in enumerate(normalized_frames)" of plan_chain, from
\* frame k (0-based) on.  before lists the node calls made before the loop,
\* nchg counts the change addresses obtained so far.
RECURSIVE ChainLoop(_, _, _, _, _, _, _, _, _, _)
ChainLoop(k, frames, to_address, selected_inputs, available_pool, previous_change_amount, transactions, nchg, before, script_plane) ==
    LET made == before \o [i \in 1..nchg |-> "getrawchangeaddress"]
    IN
    IF k >= Len(frames)
    THEN [ok |-> TRUE, err |-> "", transactions |-> transactions,
          rpc_calls |-> made]
    ELSE
    LET frame == frames[k + 1]
        fee == frame.fee
        value == frame.value
        remaining_required == FramesTotal(SubSeq(frames, k + 2, Len(frames)))
        inputs == ChainInputs(k, selected_inputs, previous_change_amount)
        change_amount == Quantize(available_pool - value - fee)
        has_change == change_amount >= DUST_LIMIT
        to_output == ChainToOutput(to_address, value, change_amount)
        change_output ==
            IF has_change
            THEN [present |-> TRUE, address |-> getrawchangeaddress(nchg),
                  amount |-> change_amount]
            ELSE NoChange
        failed(err) == [ok |-> FALSE, err |-> err, transactions |-> <<>>,
                        rpc_calls |-> made]
    IN IF fee < 0 THEN failed("negative_fee")
       ELSE IF value <= 0 THEN failed("nonpositive_value")
       ELSE IF k > 0 /\ frame.inputs.given /\ frame.inputs.value # 1
       THEN failed("multiple_inputs")
       ELSE IF k > 0 /\ ~previous_change_amount.given
       THEN failed("missing_change")
       ELSE IF available_pool < value + fee THEN failed("insufficient_funds")
       ELSE IF IntermediateChangeTooSmall(k, Len(frames), change_amount)
       THEN failed("dust")
       ELSE IF change_amount < remaining_required THEN failed("downstream")
       ELSE ChainLoop(k + 1, frames, to_address, selected_inputs,
                      change_amount,
                      IF has_change THEN Some(change_amount) ELSE None,
                      Append(transactions,
                             PlannedTx(inputs, to_output, change_output, fee,
                                       TxScriptPlane(frame, script_plane))),
                      IF has_change THEN nchg + 1 ELSE nchg,
                      before, script_plane)

\* frames[:max_frames]: a slice stops at max_frames counted from the end of
\* the list when max_frames is negative, and never leaves the list.
Truncate(frames, max_frames) ==
    IF ~max_frames.given THEN frames
    ELSE LET n == Len(frames)
             stop == IF max_frames.value < 0
                     THEN (IF n + max_frames.value < 0 THEN 0
                           ELSE n + max_frames.value)
                     ELSE (IF max_frames.value > n THEN n
                           ELSE max_frames.value)
         IN SubSeq(frames, 1, stop)

\* SymbolPlanner.plan_chain(symbol, receiver=..., max_frames=...,
\* block_target=..., enforce_block_target=...) against a wallet whose
\* listunspent answers utxos; receiver "" stands for None.
SymbolPlanner_plan_chain(utxos, symbol, receiver, max_frames, block_target, enforce_block_target) ==
    IF symbol.frames = <<>> THEN ChainError("no_frames", <<>>)
    ELSE IF Truncate(symbol.frames, max_frames) = <<>>
    THEN ChainError("zero_frames", <<>>)
    ELSE
    LET frames == Truncate(symbol.frames, max_frames)
        asks_address == receiver = ""
        to_address == IF asks_address THEN getnewaddress(0) ELSE receiver
        calls1 == IF asks_address THEN <<"getnewaddress">> ELSE <<>>
        normalized_frames ==
            [i \in 1..Len(frames) |-> NormalizeFrame(frames[i], symbol)]
        required_inputs ==
            IF Truthy(normalized_frames[1].inputs)
            THEN normalized_frames[1].inputs.value ELSE symbol.inputs
        calls2 == calls1 \o (IF block_target.given THEN <<"getblockcount">>
                             ELSE <<>>)
        total_required == FramesTotal(normalized_frames)
        calls3 == calls2 \o <<"listunspent">>
        sel == _select_utxos(utxos, required_inputs, total_required)
        selected_inputs ==
            [i \in 1..Len(sel.selected) |->
                PatternInput(sel.selected[i].txid, sel.selected[i].vout,
                             sel.selected[i].amount)]
        r == ChainLoop(0, normalized_frames, to_address, selected_inputs,
                       sel.total, None, <<>>, 0, calls3, symbol.script_plane)
    IN IF required_inputs <= 0 THEN ChainError("no_inputs", calls1)
       ELSE IF block_target.given /\ block_target.value <= CurrentHeight
       THEN ChainError("block_target", calls2)
       ELSE IF ~sel.ok THEN ChainError(sel.err, calls3)
       ELSE IF ~r.ok THEN ChainError(r.err, r.rpc_calls)
       ELSE [ok |-> TRUE, err |-> "", to_address |-> to_address,
             transactions |-> r.transactions,
             initial_utxos |->
                 SelectSeq(r.transactions[1].inputs,
                           LAMBDA item : item.txid # PREVIOUS_CHANGE_SENTINEL),
             block_target |-> block_target,
             enforce_block_target |->
                 block_target.given \/ enforce_block_target,
             rpc_calls |-> r.rpc_calls]


\* ---------------------------------------------------- SymbolPlanner inputs
MaxOutputs == 4
MaxFrames == 3

\* Symbols without frames, for SymbolPlanner.plan: value 1, 1.000000005, 5,
\* 0.0001 or 8.5 DGB; fee 0.5, 0.1 or 0.00001 DGB; -1 to 3 inputs
\* (AutomationDialect.load takes any integer).
PlanSymbols ==
    {AutomationSymbol(v, f, m, n, d, <<>>, NoScriptPlane) :
        v \in {COIN, COIN + 1, 5 * COIN, 20000, 8 * COIN + COIN \div 2},
        f \in {COIN \div 2, COIN \div 10, 2000},
        m \in (0 - 1)..3, n \in 1..MaxOutputs, d \in {0, 3}}

\* Frames of chained symbols: 1.000000005 DGB; 1 DGB with its own fee and
\* two inputs; 0.0002 DGB with its own script plane; 0.00005 DGB with a fee
\* of 0; a value of 0; a negative fee.
FrameChoices ==
    {AutomationFrame(COIN + 1, None, None),
     AutomationFrame(COIN, Some(COIN \div 10), Some(2)),
     FrameWithPlane(AutomationFrame(40000, None, Some(1)), "p2tr"),
     AutomationFrame(10000, Some(0), None),
     AutomationFrame(0, None, None),
     AutomationFrame(COIN, Some(0 - 2000), None)}

ChainSymbols ==
    {AutomationSymbol(COIN, 2000, m, 2, 0, frames, script_plane) :
        m \in 0..2, frames \in SeqsUpTo(FrameChoices, MaxFrames),
        script_plane \in {NoScriptPlane, "p2wpkh"}}

ReceiverChoices == {"dest", ""}
BlockTargetChoices == {None, Some(CurrentHeight), Some(CurrentHeight + 3)}
MaxFramesChoices == {None, Some(0), Some(2), Some(0 - 1)}

\* Calls that make the wallet hand out an address.
AddressCalls(rpc_calls) ==
    Len(SelectSeq(rpc_calls, LAMBDA c : c \in {"getnewaddress", "getrawchangeaddress"}))

quiet_vars ==
    <<wallet, pc, request, plan_result, plan, params, index,
      previous_change_ref, txids, calls, ledger, polls, last_response, sleeps,
      waited, error,
      automation, chain_height, current_height, poll_seconds>>

\* A caller plans a single-transaction symbol: SymbolPlanner.plan(...), on
\* a symbol and a receiver of the given sets.
PlanSymbolFrom(symbols, receivers) ==
    /\ pc = "idle" /\ api_call = NoCall
    /\ \E symbol \in symbols, receiver \in receivers,
          block_target \in BlockTargetChoices,
          enforce_block_target \in BOOLEAN :
         LET r == SymbolPlanner_plan(wallet, symbol, receiver, block_target,
                                     enforce_block_target)
         IN /\ api_call' = [fn |-> "plan", symbol |-> symbol,
                            receiver |-> receiver, block_target |-> block_target,
                            enforce_block_target |-> enforce_block_target]
            /\ api_return' = r
            /\ addresses_issued' = addresses_issued + AddressCalls(r.rpc_calls)
    /\ UNCHANGED quiet_vars

PlanSymbol == PlanSymbolFrom(PlanSymbols, ReceiverChoices)

\* A caller plans a chained symbol: SymbolPlanner.plan_chain(...), on a
\* symbol, a receiver and a max_frames of the given sets.
PlanChainFrom(symbols, receivers, limits) ==
    /\ pc = "idle" /\ api_call = NoCall
    /\ \E symbol \in symbols, receiver \in receivers,
          max_frames \in limits, block_target \in BlockTargetChoices,
          enforce_block_target \in BOOLEAN :
         LET r == SymbolPlanner_plan_chain(wallet, symbol, receiver,
                                           max_frames, block_target,
                                           enforce_block_target)
         IN /\ api_call' = [fn |-> "plan_chain", symbol |-> symbol,
                            receiver |-> receiver, max_frames |-> max_frames,
                            block_target |-> block_target,
                            enforce_block_target |-> enforce_block_target]
            /\ api_return' = r
            /\ addresses_issued' = addresses_issued + AddressCalls(r.rpc_calls)
    /\ UNCHANGED quiet_vars

PlanChain == PlanChainFrom(ChainSymbols, ReceiverChoices, MaxFramesChoices)


\* ============================================================ to_jsonable
\* A Decimal is a coefficient and an exponent <= 0: coef * 10^exp DGB.  A
\* string is a sequence of one-character strings.
RECURSIVE Pow10(_)
Pow10(n) == IF n <= 0 THEN 1 ELSE 10 * Pow10(n - 1)

\* Whether an amount (in units of 1 / (EIGHT_DP * 1e8) DGB) can be written
\* with the given number of fractional digits, and its coefficient then.
Writable(units, places) ==
    places >= 9 \/ units % (EIGHT_DP * Pow10(8 - places)) = 0

CoefAt(units, places) ==
    IF places >= 9 THEN units * (10 \div EIGHT_DP)
    ELSE units \div (EIGHT_DP * Pow10(8 - places))

DecimalAt(units, places) == [coef |-> CoefAt(units, places), exp |-> 0 - places]

\* The fewest fractional digits, at least lowest, that write the amount.
MinPlaces(units, lowest) ==
    CHOOSE q \in lowest..9 :
        Writable(units, q) /\ \A r \in lowest..(q - 1) : ~Writable(units, r)

\* Decimal("0.1"), Decimal("0"): a Decimal the caller typed in shortest form.
DecimalTyped(units) == DecimalAt(units, MinPlaces(units, 0))

\* Decimal(str(entry["amount"])) of a JSON number the node reported: str of
\* a float keeps at least one fractional digit ("4.0").
DecimalFromFloat(units) == DecimalAt(units, MinPlaces(units, 1))

\* amount.quantize(EIGHT_DP, rounding=ROUND_DOWN): exponent -8.
DecimalQuantized(units) == DecimalAt(Quantize(units), 8)

DigitChars == <<"0", "1", "2", "3", "4", "5", "6", "7", "8", "9">>

\* The decimal digits of a natural number.
RECURSIVE DigitsOf(_)
DigitsOf(n) ==
    IF n < 10 THEN <<DigitChars[n + 1]>>
    ELSE Append(DigitsOf(n \div 10), DigitChars[(n % 10) + 1])

Zeros(n) == [i \in 1..n |-> "0"]

\* Decimal.__str__ (decimal.py, _pydecimal.Decimal.__str__) of a
\* non-negative Decimal: plain notation while the exponent is <= 0 and the
\* number is at least 1e-6 in magnitude of its leading digit, scientific
\* notation otherwise.
DecimalStr(d) ==
    LET digits == DigitsOf(d.coef)
        leftdigits == d.exp + Len(digits)
        dotplace == IF d.exp <= 0 /\ leftdigits > -6 THEN leftdigits ELSE 1
        intpart == IF dotplace <= 0 THEN <<"0">>
                   ELSE IF dotplace >= Len(digits)
                   THEN digits \o Zeros(dotplace - Len(digits))
                   ELSE SubSeq(digits, 1, dotplace)
        fracpart == IF dotplace <= 0
                    THEN <<".">> \o Zeros(0 - dotplace) \o digits
                    ELSE IF dotplace >= Len(digits) THEN <<>>
                    ELSE <<".">> \o SubSeq(digits, dotplace + 1, Len(digits))
        shift == leftdigits - dotplace
        exppart == IF shift = 0 THEN <<>>
                   ELSE <<"E", IF shift < 0 THEN "-" ELSE "+">>
                        \o DigitsOf(IF shift < 0 THEN 0 - shift ELSE shift)
    IN intpart \o fracpart \o exppart

\* Position of a character in a string, 0 when it does not occur.
IndexOf(chars, c) ==
    IF \E i \in 1..Len(chars) : chars[i] = c
    THEN CHOOSE i \in 1..Len(chars) :
             chars[i] = c /\ \A j \in 1..(i - 1) : chars[j] # c
    ELSE 0

DigitValue(c) == CHOOSE v \in 0..9 : DigitChars[v + 1] = c

RECURSIVE NumberOf(_)
NumberOf(chars) ==
    IF chars = <<>> THEN 0
    ELSE 10 * NumberOf(SubSeq(chars, 1, Len(chars) - 1))
         + DigitValue(chars[Len(chars)])

IsDigit(c) == \E v \in 1..10 : DigitChars[v] = c

AllDigits(chars) == \A i \in 1..Len(chars) : IsDigit(chars[i])

\* A character is a one-character string; a character that has no string
\* literal is written by its code point, "U+000B".  The strings of the model
\* are over ASCII and the whitespace characters.
\* The characters str.isspace() holds of: str.strip() and the Decimal
\* constructor drop them at the ends of a string.
Whitespace ==
    {" ", "\t", "\n", "\r", "\f", "U+000B", "U+001C", "U+001D", "U+001E",
     "U+001F", "U+0085", "U+00A0", "U+1680", "U+2000", "U+2001", "U+2002",
     "U+2003", "U+2004", "U+2005", "U+2006", "U+2007", "U+2008", "U+2009",
     "U+200A", "U+2028", "U+2029", "U+202F", "U+205F", "U+3000"}

\* The int constructor drops the same characters but not the separators
\* U+001C to U+001F.
IntWhitespace == Whitespace \ {"U+001C", "U+001D", "U+001E", "U+001F"}

RECURSIVE LStrip(_, _)
LStrip(chars, blanks) ==
    IF chars # <<>> /\ Head(chars) \in blanks
    THEN LStrip(Tail(chars), blanks) ELSE chars

RECURSIVE RStrip(_, _)
RStrip(chars, blanks) ==
    IF chars # <<>> /\ chars[Len(chars)] \in blanks
    THEN RStrip(SubSeq(chars, 1, Len(chars) - 1), blanks) ELSE chars

\* text.strip()
Strip(chars) == RStrip(LStrip(chars, Whitespace), Whitespace)

WithoutUnderscores(chars) == SelectSeq(chars, LAMBDA c : c # "_")

\* A numeral without its sign, and the sign.
Unsigned(chars) ==
    IF chars # <<>> /\ chars[1] \in {"+", "-"} THEN Tail(chars) ELSE chars

SignOf(chars) == IF chars # <<>> /\ chars[1] = "-" THEN 0 - 1 ELSE 1

\* Position of the first character of a set in a string, 0 when none occurs.
FirstOf(chars, S) ==
    IF \E i \in 1..Len(chars) : chars[i] \in S
    THEN CHOOSE i \in 1..Len(chars) :
             chars[i] \in S /\ \A j \in 1..(i - 1) : chars[j] \notin S
    ELSE 0

Lower(c) ==
    CASE c = "I" -> "i" [] c = "N" -> "n" [] c = "F" -> "f" [] c = "T" -> "t"
      [] c = "Y" -> "y" [] c = "A" -> "a" [] c = "S" -> "s" [] OTHER -> c

LowerAll(chars) == [i \in 1..Len(chars) |-> Lower(chars[i])]

\* NaN with its diagnostic digits, after the optional s of a signaling NaN.
IsNaN(body) ==
    /\ Len(body) >= 3
    /\ SubSeq(body, 1, 3) = <<"n", "a", "n">>
    /\ AllDigits(SubSeq(body, 4, Len(body)))

\* Inf, Infinity, NaN, sNaN in either case
IsSpecial(lowered) ==
    \/ lowered = <<"i", "n", "f">>
    \/ lowered = <<"i", "n", "f", "i", "n", "i", "t", "y">>
    \/ IsNaN(IF lowered # <<>> /\ lowered[1] = "s" THEN Tail(lowered)
             ELSE lowered)

NoDecimal ==
    [ok |-> FALSE, special |-> FALSE, sign |-> 1, coef |-> 0, exp |-> 0]

NoExponent == [ok |-> TRUE, value |-> 0]

\* The exponent of a numeral: a sign, if any, and digits.
ExponentPart(chars) ==
    IF Unsigned(chars) # <<>> /\ AllDigits(Unsigned(chars))
    THEN [ok |-> TRUE, value |-> SignOf(chars) * NumberOf(Unsigned(chars))]
    ELSE [ok |-> FALSE, value |-> 0]

\* The digits before and after the point form the coefficient, the exponent
\* is the E part minus the number of fractional digits; there is a digit
\* before or after the point.
NumeralOf(sign, whole, frac, exponent) ==
    IF AllDigits(whole) /\ AllDigits(frac) /\ whole \o frac # <<>>
       /\ exponent.ok
    THEN [ok |-> TRUE, special |-> FALSE, sign |-> sign,
          coef |-> NumberOf(whole \o frac), exp |-> exponent.value - Len(frac)]
    ELSE NoDecimal

MantissaAt(sign, mantissa, dot, exponent) ==
    IF dot = 0 THEN NumeralOf(sign, mantissa, <<>>, exponent)
    ELSE NumeralOf(sign, SubSeq(mantissa, 1, dot - 1),
                   SubSeq(mantissa, dot + 1, Len(mantissa)), exponent)

MantissaOf(sign, mantissa, exponent) ==
    MantissaAt(sign, mantissa, IndexOf(mantissa, "."), exponent)

NumberAt(sign, body, e) ==
    IF e = 0 THEN MantissaOf(sign, body, NoExponent)
    ELSE MantissaOf(sign, SubSeq(body, 1, e - 1),
                    ExponentPart(SubSeq(body, e + 1, Len(body))))

SignedDecimal(sign, body) ==
    IF IsSpecial(LowerAll(body))
    THEN [ok |-> TRUE, special |-> TRUE, sign |-> sign, coef |-> 0, exp |-> 0]
    ELSE NumberAt(sign, body, FirstOf(body, {"e", "E"}))

DecimalOfText(text) == SignedDecimal(SignOf(text), Unsigned(text))

\* Decimal(text): surrounding whitespace and underscores are dropped; then
\* a sign, digits with or without a point, and an exponent, or one of the
\* special values.  Not ok stands for decimal.InvalidOperation.
ParseDecimal(chars) == DecimalOfText(WithoutUnderscores(Strip(chars)))

\* PatternInput.to_jsonable; the amount of a wallet UTXO comes from the
\* node's JSON number, the amount of a placeholder is the quantized change.
PatternInput_to_jsonable(item) ==
    [txid |-> item.txid, vout |-> item.vout,
     amount |-> DecimalStr(IF item.txid = PREVIOUS_CHANGE_SENTINEL
                           THEN DecimalQuantized(item.amount)
                           ELSE DecimalFromFloat(item.amount))]

\* PatternOutput.to_jsonable(index); planner outputs are quantized.
PatternOutput_to_jsonable(output, k) ==
    [index |-> k, address |-> output.address,
     amount |-> DecimalStr(DecimalQuantized(output.amount))]

NoJson == [index |-> -1, address |-> "", amount |-> <<>>]

\* PatternPlan.to_jsonable; fee is the Decimal the caller passed.
PatternPlan_to_jsonable(step, fee) ==
    [fee |-> DecimalStr(fee),
     inputs |-> [i \in 1..Len(step.inputs) |->
                    PatternInput_to_jsonable(step.inputs[i])],
     outputs |-> [i \in 1..Len(step.outputs) |->
                    PatternOutput_to_jsonable(step.outputs[i], i - 1)],
     has_change |-> step.change_output.present,
     change |-> IF step.change_output.present
                THEN PatternOutput_to_jsonable(step.change_output,
                                               Len(step.outputs))
                ELSE NoJson]

\* PatternPlanSequence.to_jsonable
PatternPlanSequence_to_jsonable(steps, fee) ==
    [i \in 1..Len(steps) |-> PatternPlan_to_jsonable(steps[i], fee)]

\* How the caller wrote the fee: Decimal("0.1"), or Decimal("0.10000000")
\* when eight digits can hold it.
FeeDecimals(units) ==
    {DecimalTyped(units)}
    \cup (IF Writable(units, 8) THEN {DecimalAt(units, 8)} ELSE {})

\* The caller prints the plan it got: plan.to_jsonable().
InspectPlan ==
    /\ pc = "planned" /\ api_call = NoCall /\ plan_result.ok
    /\ \E fee \in FeeDecimals(request.fee) :
         /\ api_call' = [fn |-> "to_jsonable", fee |-> fee]
         /\ api_return' = [ok |-> TRUE, err |-> "",
                           steps |-> PatternPlanSequence_to_jsonable(plan, fee)]
    /\ UNCHANGED quiet_vars
    /\ UNCHANGED addresses_issued

\* ============================================================ command line
\* A string of the command line is the sequence of its characters.
RECURSIVE SplitFrom(_, _, _)
SplitFrom(chars, sep, segment) ==
    IF chars = <<>> THEN <<segment>>
    ELSE IF Head(chars) = sep
    THEN <<segment>> \o SplitFrom(Tail(chars), sep, <<>>)
    ELSE SplitFrom(Tail(chars), sep, Append(segment, Head(chars)))

\* raw.split(sep)
Split(chars, sep) == SplitFrom(chars, sep, <<>>)

\* _split_csv: [segment.strip() for segment in raw.split(",") if segment.strip()]
StripEach(segments) == [i \in 1..Len(segments) |-> Strip(segments[i])]

_split_csv(raw) ==
    SelectSeq(StripEach(Split(raw, ",")), LAMBDA segment : segment # <<>>)

\* The Python string of a sequence of characters.
RECURSIVE Join(_)
Join(chars) == IF chars = <<>> THEN "" ELSE Head(chars) \o Join(Tail(chars))

\* The digits of an int literal may be grouped by single underscores.
GroupedDigits(chars) ==
    /\ chars # <<>>
    /\ \A i \in 1..Len(chars) : IsDigit(chars[i]) \/ chars[i] = "_"
    /\ chars[1] # "_" /\ chars[Len(chars)] # "_"
    /\ \A i \in 1..(Len(chars) - 1) : ~(chars[i] = "_" /\ chars[i + 1] = "_")

IntOfStripped(chars) ==
    IF GroupedDigits(Unsigned(chars))
    THEN [ok |-> TRUE,
          value |-> SignOf(chars) * NumberOf(WithoutUnderscores(Unsigned(chars)))]
    ELSE [ok |-> FALSE, value |-> 0]

\* int(text); not ok stands for ValueError.
IntOf(chars) == IntOfStripped(RStrip(LStrip(chars, IntWhitespace), IntWhitespace))

UtxoRef(txid, vout) == [txid |-> txid, vout |-> vout]

\* txid, vout_str = piece.split(":", maxsplit=1); vout = int(vout_str)
PieceParts(txid, vout) == [ok |-> vout.ok, ref |-> UtxoRef(txid, vout.value)]

PieceAt(piece, colon) ==
    IF colon = 0 THEN [ok |-> FALSE, ref |-> UtxoRef("", 0)]
    ELSE PieceParts(Join(SubSeq(piece, 1, colon - 1)),
                    IntOf(SubSeq(piece, colon + 1, Len(piece))))

ParsePiece(piece) == PieceAt(piece, IndexOf(piece, ":"))

ParsedPieces(pieces) ==
    IF pieces = <<>> \/ \E i \in 1..Len(pieces) : ~pieces[i].ok
    THEN [ok |-> FALSE, references |-> <<>>]
    ELSE [ok |-> TRUE, references |-> [i \in 1..Len(pieces) |-> pieces[i].ref]]

ParseEachPiece(parts) == [i \in 1..Len(parts) |-> ParsePiece(parts[i])]

\* _parse_utxo_refs(raw); not ok stands for CLIError (no parts, a piece
\* without a colon, a vout that is no integer).
_parse_utxo_refs(raw) == ParsedPieces(ParseEachPiece(_split_csv(raw)))

\* indexed = {(txid, vout): entry for entry in available if spendable}
IndexedEntry(utxos, ref) ==
    LET hits == SelectSeq(Spendable(utxos),
                          LAMBDA u : u.txid = ref.txid /\ u.vout = ref.vout)
    IN IF hits = <<>> THEN [found |-> FALSE, entry |-> Utxo("", 0, 0, FALSE)]
       ELSE [found |-> TRUE, entry |-> hits[Len(hits)]]

\* _load_selected_utxos from the references on: listunspent, the missing
\* references, the entries.
LoadReferences(utxos, parsed) ==
    IF ~parsed.ok THEN [ok |-> FALSE, selected |-> <<>>, rpc_calls |-> 0]
    ELSE IF \E i \in 1..Len(parsed.references) :
                ~IndexedEntry(utxos, parsed.references[i]).found
    THEN [ok |-> FALSE, selected |-> <<>>, rpc_calls |-> 1]
    ELSE [ok |-> TRUE,
          selected |-> [i \in 1..Len(parsed.references) |->
                           IndexedEntry(utxos, parsed.references[i]).entry],
          rpc_calls |-> 1]

\* _load_selected_utxos(rpc, utxo_spec, min_confirmations); utxo_spec is the
\* text of --use-utxos, or None when the flag is absent.  "if not utxo_spec"
\* holds for None and for the empty string only.
_load_selected_utxos(utxos, utxo_spec) ==
    IF ~utxo_spec.given \/ utxo_spec.value = <<>>
    THEN [ok |-> TRUE, selected |-> <<>>, rpc_calls |-> 0]
    ELSE LoadReferences(utxos, _parse_utxo_refs(utxo_spec.value))

ParsedAmounts(parsed) ==
    IF parsed = <<>> \/ \E i \in 1..Len(parsed) : ~parsed[i].ok
    THEN [ok |-> FALSE, value |-> <<>>]
    ELSE [ok |-> TRUE, value |-> parsed]

ParseEachAmount(parts) == [i \in 1..Len(parts) |-> ParseDecimal(parts[i])]

\* _parse_amounts_csv(raw); not ok stands for CLIError (no parts, a part
\* that is no decimal).
_parse_amounts_csv(raw) == ParsedAmounts(ParseEachAmount(_split_csv(raw)))

\* _parse_decimal(value, flag); not ok stands for CLIError.
_parse_decimal(value) == ParseDecimal(value)

\* The amount of a Decimal in units; digits below half a satoshi are cut.
UnitsOfDecimal(d) ==
    d.sign * (IF d.exp >= 0 - 8 THEN d.coef * EIGHT_DP * Pow10(8 + d.exp)
              ELSE (d.coef * EIGHT_DP) \div Pow10(0 - 8 - d.exp))

\* The keyword parameters plan_explicit_pattern declares, and the keywords
\* cmd_plan_pattern passes to it.
PlanExplicitPatternParameters ==
    {"to_address", "amounts", "fee", "min_confirmations", "script_plane"}

CmdPlanPatternKeywords ==
    {"to_address", "amounts", "fee", "min_confirmations", "preferred_utxos"}

\* Python accepts a call only when every keyword passed is a declared
\* parameter; otherwise the call raises TypeError before the body runs.
KeywordsAccepted(keywords, parameters) == keywords \subseteq parameters

CmdError(err, rpc_calls) ==
    [ok |-> FALSE, err |-> err, steps |-> <<>>, rpc_calls |-> rpc_calls,
     new_addresses |-> 0]

\* The plan the command prints; the node calls of the command are those of
\* the planner and those made before.
PlanAfter(r, rpc_calls) == [r EXCEPT !.rpc_calls = r.rpc_calls + rpc_calls]

\* The call of plan_explicit_pattern with the Decimals parsed.  (A NaN or an
\* infinity among them would end the planner's comparisons or quantize with
\* an exception.)
CmdPlan(utxos, to_address, amounts, fee, rpc_calls) ==
    IF ~KeywordsAccepted(CmdPlanPatternKeywords, PlanExplicitPatternParameters)
    THEN CmdError("type_error", rpc_calls)
    ELSE IF fee.special \/ \E i \in 1..Len(amounts) : amounts[i].special
    THEN CmdError("special_value", rpc_calls)
    ELSE PlanAfter(plan_explicit_pattern(utxos, to_address,
                       [i \in 1..Len(amounts) |-> UnitsOfDecimal(amounts[i])],
                       UnitsOfDecimal(fee), NoScriptPlane), rpc_calls)

CmdLoaded(utxos, to_address, amounts, fee, loaded) ==
    IF ~loaded.ok THEN CmdError("cli_error", loaded.rpc_calls)
    ELSE CmdPlan(utxos, to_address, amounts, fee, loaded.rpc_calls)

CmdParsed(utxos, to_address, amounts, fee, use_utxos) ==
    IF ~amounts.ok \/ ~fee.ok THEN CmdError("cli_error", 0)
    ELSE CmdLoaded(utxos, to_address, amounts.value, fee,
                   _load_selected_utxos(utxos, use_utxos))

\* cmd_plan_pattern(args) up to the plan it prints, against a wallet whose
\* listunspent answers utxos: the texts of --amounts, --fee and --use-utxos
\* are parsed in this order, then the funding is loaded and the planner
\* called.
cmd_plan_pattern(utxos, to_address, amounts, fee, use_utxos) ==
    CmdParsed(utxos, to_address, _parse_amounts_csv(amounts),
              _parse_decimal(fee), use_utxos)

\* --amounts texts: "", ",", " ", "1", "1,1", "1, 2 ,3", "0.0002,0.00002",
\* "1,-1", "0", "1,x", "0.000200005", "1e0", "nan".
AmountsTexts ==
    {<<>>, <<",">>, <<" ">>, <<"1">>, <<"1", ",", "1">>,
     <<"1", ",", " ", "2", " ", ",", "3">>,
     <<"0", ".", "0", "0", "0", "2", ",", "0", ".", "0", "0", "0", "0", "2">>,
     <<"1", ",", "-", "1">>, <<"0">>, <<"1", ",", "x">>,
     <<"0", ".", "0", "0", "0", "2", "0", "0", "0", "0", "5">>,
     <<"1", "e", "0">>, <<"n", "a", "n">>}

\* --fee texts: "0.1", "0.00001", "-0.00001", "0", "", "1x".
FeeTexts ==
    {<<"0", ".", "1">>, <<"0", ".", "0", "0", "0", "0", "1">>,
     <<"-", "0", ".", "0", "0", "0", "0", "1">>, <<"0">>, <<>>, <<"1", "x">>}

\* --use-utxos: absent, "", " ", ",", "c:2", "a:0,b:1", " a:0 , b:1,",
\* "x:0", "y:1,w:0", "tiny1:0", "c", "c:z", "c:2,b".
UseUtxosChoices ==
    {None, Some(<<>>), Some(<<" ">>), Some(<<",">>),
     Some(<<"c", ":", "2">>),
     Some(<<"a", ":", "0", ",", "b", ":", "1">>),
     Some(<<" ", "a", ":", "0", " ", ",", " ", "b", ":", "1", ",">>),
     Some(<<"x", ":", "0">>),
     Some(<<"y", ":", "1", ",", "w", ":", "0">>),
     Some(<<"t", "i", "n", "y", "1", ":", "0">>),
     Some(<<"c">>), Some(<<"c", ":", "z">>),
     Some(<<"c", ":", "2", ",", "b">>)}

\* A user runs the plan-pattern command.
CmdPlanPattern ==
    /\ pc = "idle" /\ api_call = NoCall
    /\ \E amounts \in AmountsTexts, fee \in FeeTexts,
          use_utxos \in UseUtxosChoices :
         LET r == cmd_plan_pattern(wallet, "dest", amounts, fee, use_utxos)
         IN /\ api_call' = [fn |-> "cmd_plan_pattern", amounts |-> amounts,
                            fee |-> fee, use_utxos |-> use_utxos]
            /\ api_return' = r
            /\ addresses_issued' = addresses_issued + r.new_addresses
    /\ UNCHANGED quiet_vars

\* One call of a plan builder or of the plan-pattern command against the
\* wallet.
PlannerNext ==
    \/ PlanSymbol \/ PlanChain \/ PlanExplicitPattern \/ CmdPlanPattern
    \/ InspectPlan

PlannerSpec == Init /\ [][PlannerNext]_vars


\* --------------------------------------------------- claims on plan_chain
ChainCalled == api_call.fn = "plan_chain"
ChainReturned == ChainCalled /\ api_return.ok

\* The frames plan_chain works on: symbol.frames cut to max_frames.
PlannedFrames == Truncate(api_call.symbol.frames, api_call.max_frames)

IsWalletUtxo(item) ==
    \E i \in 1..Len(wallet) :
        /\ wallet[i].txid = item.txid /\ wallet[i].vout = item.vout
        /\ wallet[i].amount = item.amount /\ wallet[i].spendable

\* C16: in every PlannedChain plan_chain returns, transaction 0 spends only
\* UTXOs of the wallet and these are exactly initial_utxos; every later
\* transaction has one input, the placeholder for the previous change; every
\* non-final transaction has a change output whose amount is the amount of
\* the next transaction's input.  When a later frame of the chain declares
\* more than one input, plan_chain raises.
C16_ChainStructure ==
    /\ ChainReturned =>
         LET txs == api_return.transactions
         IN /\ Len(txs) = Len(PlannedFrames)
            /\ txs[1].inputs # <<>>
            /\ \A i \in 1..Len(txs[1].inputs) : IsWalletUtxo(txs[1].inputs[i])
            /\ api_return.initial_utxos = txs[1].inputs
            /\ \A k \in 2..Len(txs) :
                 /\ Len(txs[k].inputs) = 1
                 /\ txs[k].inputs[1].txid = PREVIOUS_CHANGE_SENTINEL
            /\ \A k \in 1..(Len(txs) - 1) :
                 /\ txs[k].change_output.present
                 /\ txs[k].change_output.amount = txs[k + 1].inputs[1].amount
    /\ (ChainCalled /\ \E k \in 2..Len(PlannedFrames) :
                          /\ PlannedFrames[k].inputs.given
                          /\ PlannedFrames[k].inputs.value > 1)
         => ~api_return.ok

\* A chain of two transactions whose first one spends two wallet UTXOs.
C16_Witness ==
    /\ ChainReturned
    /\ Len(api_return.transactions) >= 2
    /\ Len(api_return.transactions[1].inputs) = 2


\* The frames as plan_chain normalizes them.
NormalizedPlannedFrames ==
    [i \in 1..Len(PlannedFrames) |->
        NormalizeFrame(PlannedFrames[i], api_call.symbol)]

\* value + fee of the frames i..j.
RECURSIVE FrameCost(_, _, _)
FrameCost(frames, i, j) ==
    IF i > j THEN 0
    ELSE frames[i].value + frames[i].fee + FrameCost(frames, i + 1, j)

\* What is left of the funding total after the frames 1..k.
LeftAfter(total, frames, k) == total - FrameCost(frames, 1, k)

RemainingRequired(frames, k) == FrameCost(frames, k + 1, Len(frames))

ChangeSuffices(total, frames, k) ==
    /\ LeftAfter(total, frames, k) >= RemainingRequired(frames, k)
    /\ k < Len(frames) => LeftAfter(total, frames, k) >= DUST_LIMIT

WellFormedFrames(frames) ==
    \A k \in 1..Len(frames) :
        /\ frames[k].fee >= 0 /\ frames[k].value > 0
        /\ k > 1 => (~frames[k].inputs.given \/ frames[k].inputs.value = 1)

\* The inputs plan_chain asks the selection for, and what the wallet gives.
ChainRequiredInputs ==
    IF Truthy(NormalizedPlannedFrames[1].inputs)
    THEN NormalizedPlannedFrames[1].inputs.value ELSE api_call.symbol.inputs

\* The total of the n largest spendable UTXOs (of none when n is below 0).
TopTotal(utxos, n) ==
    LET top == IF n < 0 THEN {}
               ELSE CHOOSE T \in SUBSET SpendableSet(utxos) :
                        /\ Cardinality(T) = n
                        /\ \A u \in SpendableSet(utxos) \ T :
                               \A t \in T : u.amount <= t.amount
    IN SumAmounts(top)

ChainFundingTotal == TopTotal(wallet, ChainRequiredInputs)

EnoughSpendable == Cardinality(SpendableSet(wallet)) >= ChainRequiredInputs

\* C17: in a chain plan_chain returns, the change left after every frame
\* covers value + fee of all later frames, and after every non-final frame
\* it is at least DUST_LIMIT.  When the selected funding fails either
\* condition at some frame, plan_chain raises and no transaction list is
\* produced; a well-formed chain whose funding covers all frames but leaves
\* an intermediate change below dust is rejected for that reason.
C17_ChangeCoversChain ==
    ChainCalled =>
      LET frames == NormalizedPlannedFrames
      IN /\ api_return.ok =>
              LET total == SumSeq(AmountsOf(api_return.initial_utxos))
              IN \A k \in 1..Len(frames) : ChangeSuffices(total, frames, k)
         /\ ~api_return.ok => api_return.transactions = <<>>
         /\ (/\ frames # <<>>
             /\ ChainRequiredInputs > 0
             /\ EnoughSpendable
             /\ \E k \in 1..Len(frames) :
                    ~ChangeSuffices(ChainFundingTotal, frames, k))
              => ~api_return.ok
         /\ (/\ frames # <<>>
             /\ WellFormedFrames(frames)
             /\ ChainRequiredInputs > 0
             /\ EnoughSpendable
             /\ ~(api_call.block_target.given
                  /\ api_call.block_target.value <= CurrentHeight)
             /\ LeftAfter(ChainFundingTotal, frames, Len(frames)) >= 0
             /\ \E k \in 1..(Len(frames) - 1) :
                    LeftAfter(ChainFundingTotal, frames, k) < DUST_LIMIT)
              => api_return.err = "dust"

\* The funding covers every frame but the change after the first frame is
\* below the dust limit, and plan_chain raised.
C17_Witness ==
    /\ ChainCalled
    /\ Len(PlannedFrames) >= 2
    /\ WellFormedFrames(NormalizedPlannedFrames)
    /\ EnoughSpendable
    /\ ChainRequiredInputs > 0
    /\ LeftAfter(ChainFundingTotal, NormalizedPlannedFrames,
                 Len(PlannedFrames)) >= 0
    /\ LeftAfter(ChainFundingTotal, NormalizedPlannedFrames, 1)
           < DUST_LIMIT
    /\ ~api_return.ok
    /\ api_return.transactions = <<>>


\* ------------------------------------------- claims on SymbolPlanner.plan
PlanCalled == api_call.fn = "plan"
PlanReturned == PlanCalled /\ api_return.ok

\* The amount the wallet reports for an input reference of a SymbolPlan.
RefAmount(ref) ==
    (CHOOSE u \in Range(wallet) : u.txid = ref.txid /\ u.vout = ref.vout).amount

PlanInputsTotal ==
    SumSeq([i \in 1..Len(api_return.inputs) |-> RefAmount(api_return.inputs[i])])

PlanOutputsTotal == SumSeq(AmountsOf(api_return.outputs))

\* The outputs after the receiver's: the change branches.
PlanBranches == Tail(api_return.outputs)

\* inputs total - value - fee, before any rounding
PlanLeftover == PlanInputsTotal - api_call.symbol.value - api_call.symbol.fee

\* floor to 8 decimals of an amount divided by m
FloorShare(amount, m) == Quantize(amount \div m)

\* The branches get the floor share, the last one the rest of pool.
SplitsPool(pool) ==
    LET m == api_call.symbol.outputs - 1
    IN /\ Len(PlanBranches) = m
       /\ \A b \in 1..(m - 1) : PlanBranches[b].amount = FloorShare(pool, m)
       /\ PlanBranches[m].amount = pool - (m - 1) * FloorShare(pool, m)
       /\ SumSeq(AmountsOf(PlanBranches)) = pool

PlanCardinality ==
    /\ Len(api_return.inputs) = api_call.symbol.inputs
    /\ Len(api_return.outputs) = api_call.symbol.outputs

\* plan raises when the n largest spendable UTXOs leave nothing, or leave a
\* per-branch share below the dust limit.
PlanRejections ==
    LET symbol == api_call.symbol
        left == TopTotal(wallet, symbol.inputs) - symbol.value - symbol.fee
    IN (/\ PlanCalled /\ symbol.outputs > 1
        /\ Cardinality(SpendableSet(wallet)) >= symbol.inputs
        /\ \/ left <= 0
           \/ FloorShare(left, symbol.outputs - 1) < DUST_LIMIT)
         => ~api_return.ok

\* C18: for n > 1 outputs the n-1 branches split the leftover
\* inputs total - value - fee, the first n-2 taking the floor share and the
\* last the remainder, so that the branches sum exactly to the leftover and
\* sum(outputs) + fee = sum(selected inputs); plan raises when the leftover
\* is <= 0 or the share is below DUST_LIMIT; a returned plan has exactly
\* symbol.inputs inputs and symbol.outputs outputs.
C18_ChangeDistribution ==
    /\ (PlanReturned /\ api_call.symbol.outputs > 1) =>
          /\ SplitsPool(PlanLeftover)
          /\ PlanOutputsTotal + api_call.symbol.fee = PlanInputsTotal
          /\ PlanCardinality
    /\ PlanRejections


\* ------------------------------------------ claims on configuration errors
PatternCalled == plan_result.err # "not_called"

PatternConfigError ==
    \/ request.amounts = <<>>
    \/ \E i \in 1..Len(request.amounts) : request.amounts[i] <= 0
    \/ request.fee < 0

\* The fee a frame is charged: its own, or the symbol's.
FrameFee(frame, symbol) ==
    IF Truthy(frame.fee) THEN frame.fee.value ELSE symbol.fee

ChainConfigError ==
    \/ PlannedFrames = <<>>
    \/ \E k \in 1..Len(PlannedFrames) :
          \/ PlannedFrames[k].value <= 0
          \/ FrameFee(PlannedFrames[k], api_call.symbol) < 0

PatternRejectsBeforeNode ==
    (PatternCalled /\ PatternConfigError) =>
        (~plan_result.ok /\ plan_result.rpc_calls = 0)

ChainRejectsBeforeNode ==
    (ChainCalled /\ ChainConfigError) =>
        (~api_return.ok /\ api_return.rpc_calls = <<>>)

\* C19: an empty amount or frame list, a non-positive amount or frame value
\* and a negative fee make plan_explicit_pattern and plan_chain raise before
\* either has called the wallet node.
C19_ConfigErrorsBeforeNode ==
    PatternRejectsBeforeNode /\ ChainRejectsBeforeNode


\* ------------------------------------------- claims on explicit funding
CmdCalled == api_call.fn = "cmd_plan_pattern"

RefsOf(inputs) == {UtxoRef(inputs[i].txid, inputs[i].vout) : i \in 1..Len(inputs)}

\* The references, amounts and fee the command line gives.
CmdReferences == _parse_utxo_refs(api_call.use_utxos.value).references

CmdAmounts ==
    LET parsed == _parse_amounts_csv(api_call.amounts).value
    IN [i \in 1..Len(parsed) |-> UnitsOfDecimal(parsed[i])]

CmdFee == UnitsOfDecimal(_parse_decimal(api_call.fee))

\* The command line parses, to numbers, and names funding UTXOs.
CmdWellFormed ==
    /\ CmdCalled
    /\ _parse_amounts_csv(api_call.amounts).ok
    /\ \A i \in 1..Len(_parse_amounts_csv(api_call.amounts).value) :
          ~_parse_amounts_csv(api_call.amounts).value[i].special
    /\ _parse_decimal(api_call.fee).ok /\ ~_parse_decimal(api_call.fee).special
    /\ api_call.use_utxos.given
    /\ _parse_utxo_refs(api_call.use_utxos.value).ok

\* The wallet entries the supplied references name.
SuppliedUtxos ==
    SelectSeq(wallet,
              LAMBDA u : u.spendable
                         /\ UtxoRef(u.txid, u.vout) \in Range(CmdReferences))

\* The supplied references all name spendable wallet UTXOs, and a wallet
\* holding just these can fund the requested pattern.
ExplicitFundingUsable ==
    /\ CmdWellFormed
    /\ \A i \in 1..Len(CmdReferences) :
          IndexedEntry(wallet, CmdReferences[i]).found
    /\ LET r == plan_explicit_pattern(SuppliedUtxos, "dest", CmdAmounts,
                                      CmdFee, NoScriptPlane)
       IN r.ok /\ RefsOf(r.steps[1].inputs) = Range(CmdReferences)

\* C20: when the caller supplies explicit funding UTXOs to the pattern plan
\* builder, a plan is returned whose step 0 is funded by exactly the
\* supplied UTXOs and by no other wallet UTXO.
C20_ExplicitFunding ==
    ExplicitFundingUsable =>
        /\ api_return.ok
        /\ RefsOf(api_return.steps[1].inputs) = Range(CmdReferences)



\* ------------------------------------------- claims on the plan document
Inspected == api_call.fn = "to_jsonable"

\* Every amount string of the inspection document.
DocumentAmounts ==
    UNION {{api_return.steps[i].fee}
           \cup {api_return.steps[i].inputs[j].amount :
                    j \in 1..Len(api_return.steps[i].inputs)}
           \cup {api_return.steps[i].outputs[j].amount :
                    j \in 1..Len(api_return.steps[i].outputs)}
           \cup (IF api_return.steps[i].has_change
                 THEN {api_return.steps[i].change.amount} ELSE {}) :
           i \in 1..Len(api_return.steps)}

\* digits, a point, exactly eight digits, nothing else
HasEightDecimals(chars) ==
    /\ IndexOf(chars, "E") = 0
    /\ IndexOf(chars, ".") > 1
    /\ Len(chars) - IndexOf(chars, ".") = 8

RoundTrips(chars) == DecimalStr(ParseDecimal(chars)) = chars

AmountsRoundTrip == Inspected => \A a \in DocumentAmounts : RoundTrips(a)

\* C21: every amount of the inspection document (fee, input amounts, output
\* amounts, change amount) is a string with exactly 8 fractional digits, and
\* parsing it and serializing it again gives the identical string.
C21_FixedEightDecimals ==
    Inspected => \A a \in DocumentAmounts : HasEightDecimals(a) /\ RoundTrips(a)


\* ======================================================= plan, send, plan
\* Requests of a second planning call: 1 DGB; 1 DGB twice; 0.0002 DGB.
ReplanAmounts == {<<COIN>>, <<COIN, COIN>>, <<40000>>}
ReplanFees == {0, 2000}

\* After broadcast_pattern_plan returned or raised, the caller plans again:
\* plan_explicit_pattern calls rpc.listunspent anew, so it sees the wallet
\* as the broadcasts left it.
Replan ==
    /\ pc \in {"done", "failed"} /\ api_call = NoCall
    /\ \E amounts \in ReplanAmounts, fee \in ReplanFees :
         LET r == plan_explicit_pattern(wallet, "dest", amounts, fee,
                                        NoScriptPlane)
         IN /\ api_call' = [fn |-> "plan_explicit_pattern",
                            amounts |-> amounts, fee |-> fee]
            /\ api_return' = r
            /\ addresses_issued' = addresses_issued + r.new_addresses
    /\ UNCHANGED quiet_vars

ReplanNext ==
    \/ PlanExplicitPattern
    \/ BroadcastStart
    \/ FanoutSend
    \/ SendStep
    \/ Poll
    \/ Replan

ReplanSpec == Init /\ [][ReplanNext]_vars

\* ------------------------------------------------- claims on re-planning
Replanned == api_call.fn = "plan_explicit_pattern"

ConcreteRefs(inputs) ==
    {UtxoRef(inputs[i].txid, inputs[i].vout) :
        i \in {j \in 1..Len(inputs) : inputs[j].txid # PREVIOUS_CHANGE_SENTINEL}}

\* No UTXO twice among the step-0 inputs, none as a concrete input later.
NoUtxoTwice(steps) ==
    /\ \A i, j \in 1..Len(steps[1].inputs) :
          (i # j) => UtxoRef(steps[1].inputs[i].txid, steps[1].inputs[i].vout)
                       # UtxoRef(steps[1].inputs[j].txid, steps[1].inputs[j].vout)
    /\ \A k \in 2..Len(steps) : ConcreteRefs(steps[k].inputs) = {}

\* The first plan was broadcast (at least its first transaction) and a
\* second plan was returned.
PlanSendPlan ==
    /\ Replanned /\ api_return.ok
    /\ plan_result.ok /\ ledger # <<>>

DisjointFunding ==
    ConcreteRefs(plan[1].inputs) \cap ConcreteRefs(api_return.steps[1].inputs) = {}

\* The second plan spends nothing the ledger already spent.
NoSpentUtxoReplanned ==
    (Replanned /\ api_return.ok) =>
        \A t \in 1..Len(ledger) :
            ConcreteRefs(api_return.steps[1].inputs)
                \cap {UtxoRef(ledger[t].inputs[i].txid, ledger[t].inputs[i].vout) :
                         i \in 1..Len(ledger[t].inputs)} = {}

ChainedDisjointFunding ==
    (PlanSendPlan /\ ~params.single_tx) => DisjointFunding

\* C22: in a sequence plan, broadcast, plan against a wallet that marks
\* broadcast inputs as spent, no UTXO funds both plans; and within one plan
\* no UTXO appears twice among the step-0 inputs or as a concrete input of a
\* later step.
C22_NoDoubleFunding ==
    /\ PlanSendPlan => DisjointFunding
    /\ (plan_result.ok /\ plan # <<>>) => NoUtxoTwice(plan)
    /\ (Replanned /\ api_return.ok) => NoUtxoTwice(api_return.steps)


\* ------------------------------------------------ claims on folded change
\* What a step has left: its input amounts minus requested amount and fee,
\* truncated to 8 decimals as the planners truncate it.
StepChange(inputs, requested, fee) ==
    Quantize(SumSeq(AmountsOf(inputs)) - requested - fee)

\* The output rule for one step: a final step whose change c has
\* 0 < c < DUST_LIMIT carries no change output and pays requested + c; any
\* other step pays exactly the requested amount.
FoldRule(inputs, value_output, change_output, requested, fee, is_last) ==
    LET c == StepChange(inputs, requested, fee)
    IN IF is_last /\ 0 < c /\ c < DUST_LIMIT
       THEN ~change_output.present /\ value_output.amount = requested + c
       ELSE value_output.amount = requested

PatternFoldRule ==
    (~Replanned /\ plan_result.ok) =>
        /\ Len(plan) = Len(request.amounts)
        /\ \A k \in 1..Len(plan) :
              /\ Len(plan[k].outputs) = 1
              /\ FoldRule(plan[k].inputs, plan[k].outputs[1],
                          plan[k].change_output, Quantize(request.amounts[k]),
                          plan[k].fee, k = Len(plan))

ChainFoldRule ==
    ChainReturned =>
        LET txs == api_return.transactions
        IN \A k \in 1..Len(txs) :
              FoldRule(txs[k].inputs, txs[k].to_output, txs[k].change_output,
                       NormalizedPlannedFrames[k].value,
                       NormalizedPlannedFrames[k].fee, k = Len(txs))

\* C23: only a final step or frame folds change.  When the last step's
\* change c has 0 < c < DUST_LIMIT the plan has no change output for it and
\* its value output is the requested amount + c; in every other case each
\* value output is exactly the requested amount truncated to 8 decimals,
\* for plan_explicit_pattern and for plan_chain.
C23_OnlyFinalFolds == PatternFoldRule /\ ChainFoldRule

\* A chain whose last frame folded a positive sub-dust change.
C23_Witness ==
    /\ ChainReturned
    /\ LET txs == api_return.transactions
           last == txs[Len(txs)]
       IN /\ ~last.change_output.present
          /\ last.to_output.amount > NormalizedPlannedFrames[Len(txs)].value

\* A pattern plan whose last step folded a positive sub-dust change.
PatternFoldWitness ==
    /\ plan_result.ok /\ plan # <<>>
    /\ ~plan[Len(plan)].change_output.present
    /\ plan[Len(plan)].outputs[1].amount > Quantize(request.amounts[Len(plan)])


\* ================================================= the wait of one step
\* Planner-built sequences under the coordinator.  The coordinator keeps
\* running once started: a send or a poll that can be made is made (the
\* node calls return).
GatedNext ==
    \/ PlanExplicitPattern
    \/ BroadcastStart
    \/ FanoutSend
    \/ SendStep
    \/ Poll

LiveSpec ==
    Init /\ [][GatedNext]_vars /\ WF_vars(SendStep) /\ WF_vars(Poll)

GatedLimited ==
    /\ Chained
    /\ params.min_confirmations_between_steps > 0
    /\ params.max_wait_seconds # NoLimit

\* ceil(M / p) + 1
MostPolls(max_wait_seconds, interval) ==
    ((max_wait_seconds + interval - 1) \div interval) + 1

\* The invariant part of C24.
C24_BudgetState ==
    GatedLimited =>
        LET interval == IF params.wait_between_txs > 0
                        THEN params.wait_between_txs ELSE 5
        IN /\ \A k \in 1..Len(plan) :
                 Len(PollsOfStep(k))
                     <= MostPolls(params.max_wait_seconds, interval)
           /\ pc = "wait" =>
                 waited = interval * Len(SleepsOfStep(index))
           /\ \A k \in 1..Len(txids) :
                 (k < index \/ (k = index /\ error = "timeout")) =>
                     Len(PollsOfStep(k)) >= 1

MaxAdvance == 5
MaxJump == 2
MaxBlockPolls == 3

\* The symbols whose plans are broadcast: 1 DGB to one or two outputs, with
\* a delta of 0 or 3 blocks; chains of up to two frames of 1.000000005 DGB
\* or 0.00005 DGB.
ScheduledSymbols ==
    {AutomationSymbol(COIN, 2000, 1, n, d, <<>>, NoScriptPlane) :
        n \in 1..2, d \in {0, 3}}

ScheduledFrames ==
    {AutomationFrame(COIN + 1, None, None),
     AutomationFrame(10000, Some(0), None)}

ScheduledChains ==
    {AutomationSymbol(COIN, 2000, 1, 2, 0, frames, NoScriptPlane) :
        frames \in SeqsUpTo(ScheduledFrames, 2)}

PlanScheduledSymbol == PlanSymbolFrom(ScheduledSymbols, {"dest"})

PlanScheduledChain == PlanChainFrom(ScheduledChains, {"dest"}, {None})

\* max_drift_blocks values a dialect's scheduling section sets.
DriftChoices == {0, 2}

\* AutomationDialect.load of a dialect with a scheduling section; the
\* planner is constructed with its automation metadata.
LoadDialect ==
    /\ pc = "idle" /\ api_call = NoCall
    /\ automation = DefaultAutomation
    /\ \E drift \in DriftChoices : automation' = AutomationMetadata(drift)
    /\ UNCHANGED <<wallet, addresses_issued, pc, request, plan_result, plan,
                   params, index, previous_change_ref, txids, calls, ledger,
                   polls, last_response, sleeps, waited, error, api_call,
                   api_return, chain_height, current_height, poll_seconds>>

\* The plan a SymbolPlanner call returned and nothing has been done with.
HasSymbolPlan == api_call.fn \in {"plan", "plan_chain"} /\ api_return.ok

\* The node accepts blocks between the planning call and the first read of
\* the height, and between two reads: the height moves by any amount.
BlockMined ==
    /\ HasSymbolPlan
    /\ pc \in {"block_target", "block_wait"}
    /\ \E n \in 1..MaxJump :
         /\ chain_height + n <= CurrentHeight + MaxAdvance
         /\ chain_height' = chain_height + n
    /\ UNCHANGED <<wallet, addresses_issued, pc, request, plan_result, plan,
                   params, index, previous_change_ref, txids, calls, ledger,
                   polls, last_response, sleeps, waited, error, api_call,
                   api_return, automation, current_height, poll_seconds>>

\* if plan.enforce_block_target and plan.block_target is not None
Gated(p) == p.enforce_block_target /\ p.block_target.given

\* poll_seconds arguments: the default, or 5.0.  A plan that is not gated
\* never reads the argument, which then stays at its default.
PollSecondsChoices(gated) ==
    IF gated THEN {DEFAULT_POLL_SECONDS, 5} ELSE {DEFAULT_POLL_SECONDS}

\* A caller broadcasts the plan: broadcast(plan, poll_seconds=...) or
\* broadcast_chain(plan, poll_seconds=..., ...), up to the call of
\* _wait_for_block_target.
Broadcast ==
    /\ pc = "idle" /\ HasSymbolPlan
    /\ pc' = IF Gated(api_return) THEN "block_target" ELSE "gate_passed"
    /\ poll_seconds' \in PollSecondsChoices(Gated(api_return))
    /\ UNCHANGED <<wallet, addresses_issued, request, plan_result, plan,
                   params, index, previous_change_ref, txids, calls, ledger,
                   polls, last_response, sleeps, waited, error, api_call,
                   api_return, automation, chain_height, current_height>>

\* if current_height > block_target + drift: raise PlanningError
AboveWindow(height, block_target, drift) == height > block_target + drift

\* while current_height < block_target - drift
BelowWindow(height, block_target, drift) == height < block_target - drift

\* _wait_for_block_target up to the loop: the first getblockcount and the
\* test against the upper edge of the window.
WaitForBlockTarget ==
    /\ pc = "block_target"
    /\ LET drift == automation.max_drift_blocks
           block_target == api_return.block_target.value
       IN /\ current_height' = Some(chain_height)
          /\ IF AboveWindow(chain_height, block_target, drift)
             THEN pc' = "failed" /\ error' = "drift_window"
             ELSE IF BelowWindow(chain_height, block_target, drift)
             THEN pc' = "block_wait" /\ error' = error
             ELSE pc' = "gate_passed" /\ error' = error
    /\ UNCHANGED <<wallet, addresses_issued, request, plan_result, plan,
                   params, index, previous_change_ref, txids, calls, ledger,
                   polls, last_response, sleeps, waited, api_call,
                   api_return, automation, chain_height, poll_seconds>>

\* The sleeps of _wait_for_block_target come before any step: step 0.
BlockTargetSleeps == SelectSeq(sleeps, LAMBDA sl : sl.step = 0)

\* One turn of the loop of _wait_for_block_target: time.sleep(poll_seconds),
\* getblockcount, and the loop condition.
BlockTargetPoll ==
    /\ pc = "block_wait"
    /\ Len(BlockTargetSleeps) < MaxBlockPolls
    /\ sleeps' = Append(sleeps, [step |-> 0, seconds |-> poll_seconds])
    /\ LET drift == automation.max_drift_blocks
           block_target == api_return.block_target.value
       IN /\ current_height' = Some(chain_height)
          /\ pc' = IF BelowWindow(chain_height, block_target, drift)
                   THEN "block_wait" ELSE "gate_passed"
    /\ UNCHANGED <<wallet, addresses_issued, request, plan_result, plan,
                   params, index, previous_change_ref, txids, calls, ledger,
                   polls, last_response, waited, error, api_call,
                   api_return, automation, chain_height, poll_seconds>>

\* How the node answers the three calls of broadcast: it rejects
\* createrawtransaction or sendrawtransaction (RPCError), it signs
\* incompletely, or it accepts the transaction.
NodeOutcomes == {"create_rejected", "incomplete", "send_rejected", "sent"}

\* SymbolPlanner.broadcast after the gate: createrawtransaction with the
\* plan's inputs and outputs, signrawtransactionwithwallet, and
\* sendrawtransaction.  broadcast has no handler around the node calls: an
\* RPCError ends it.  float(amount) of an amount of 8 decimals is written
\* back by the JSON encoder as the same 8 decimals.
BroadcastSymbol ==
    /\ pc = "gate_passed" /\ api_call.fn = "plan"
    /\ \E outcome \in NodeOutcomes :
         IF outcome \in {"create_rejected", "send_rejected"}
         THEN /\ pc' = "failed" /\ error' = "rpc_error"
              /\ UNCHANGED <<wallet, txids, ledger>>
         ELSE IF outcome = "incomplete"
         THEN /\ pc' = "failed" /\ error' = "incomplete_signature"
              /\ UNCHANGED <<wallet, txids, ledger>>
         ELSE LET txid == StubTxids[Len(ledger) + 1]
              IN /\ ledger' = Append(ledger,
                        [txid |-> txid, inputs |-> api_return.inputs,
                         outputs |-> FormatOutputs(api_return.outputs, <<>>)])
                 /\ txids' = Append(txids, txid)
                 /\ wallet' = Spend(wallet, api_return.inputs)
                 /\ pc' = "done" /\ error' = ""
    /\ UNCHANGED <<addresses_issued, request, plan_result, plan, params,
                   index, previous_change_ref, calls, polls, last_response,
                   sleeps, waited, api_call, api_return, automation,
                   chain_height, current_height, poll_seconds>>

\* PlannedChain.as_pattern_sequence
as_pattern_sequence(chain) ==
    [i \in 1..Len(chain.transactions) |->
        LET tx == chain.transactions[i]
        IN PatternPlan(tx.inputs, <<tx.to_output>>, tx.change_output, tx.fee,
                       tx.script_plane)]

\* SymbolPlanner.broadcast_chain after the gate: the call of
\* broadcast_pattern_plan on plan.as_pattern_sequence(), up to its first
\* call to the builder.  broadcast_chain passes neither single_tx nor
\* op_returns, and forwards its pacing arguments wait_between_txs,
\* min_confirmations_between_steps and max_wait_seconds.
BroadcastChain ==
    /\ pc = "gate_passed" /\ api_call.fn = "plan_chain"
    /\ \E pacing \in PacingChoices(FALSE) :
         params' = [single_tx |-> FALSE,
                    op_returns |-> [given |-> FALSE, values |-> <<>>],
                    min_confirmations_between_steps |-> pacing[1],
                    wait_between_txs |-> pacing[2],
                    max_wait_seconds |-> pacing[3]]
    /\ plan' = as_pattern_sequence(api_return)
    /\ IF api_return.transactions = <<>>
       THEN pc' = "done" /\ error' = ""
       ELSE pc' = "send" /\ error' = ""
    /\ index' = 1
    /\ previous_change_ref' = NoRef
    /\ UNCHANGED <<wallet, addresses_issued, request, plan_result, txids,
                   calls, ledger, polls, last_response, sleeps, waited,
                   api_call, api_return, automation, chain_height,
                   current_height, poll_seconds>>

ScheduleNext ==
    \/ LoadDialect
    \/ PlanScheduledSymbol
    \/ PlanScheduledChain
    \/ BlockMined
    \/ Broadcast
    \/ WaitForBlockTarget
    \/ BlockTargetPoll
    \/ BroadcastSymbol
    \/ BroadcastChain
    \/ PlanExplicitPattern
    \/ BroadcastStart
    \/ FanoutSend
    \/ SendStep
    \/ Poll

ScheduleSpec == Init /\ [][ScheduleNext]_vars

\* ------------------------------------------------------------- claim C25
\* The plan being broadcast is gated on its block target.
GatedBroadcast == HasSymbolPlan /\ Gated(api_return)

\* T - max_drift_blocks <= h <= T + max_drift_blocks
InWindow(height, block_target, drift) ==
    /\ block_target - drift <= height
    /\ height <= block_target + drift

\* C25: a plan with enforce_block_target and a block target T has its first
\* transaction sent only when the height last read from the node is inside
\* T - max_drift_blocks .. T + max_drift_blocks, however the height moved
\* between the reads; a height above the window raises and nothing is sent.
C25_BlockTargetWindow ==
    GatedBroadcast =>
        /\ ledger # <<>> =>
               /\ current_height.given
               /\ InWindow(current_height.value, api_return.block_target.value,
                           automation.max_drift_blocks)
        /\ error = "drift_window" => ledger = <<>>

\* ------------------------------------------------------------- claim C26
\* The tag frame k (1-based) of the chain declares, or the symbol's.
DeclaredPlane(k) ==
    IF PlannedFrames[k].script_plane # NoScriptPlane
    THEN PlannedFrames[k].script_plane
    ELSE api_call.symbol.script_plane

\* C26: in a PlannedChain plan_chain returns, each transaction carries the
\* script-plane tag of its own frame when the frame declares one, and the
\* symbol's tag otherwise.
C26_FrameScriptPlane ==
    ChainReturned =>
        \A k \in 1..Len(api_return.transactions) :
            api_return.transactions[k].script_plane = DeclaredPlane(k)

\* What does hold: every transaction carries the symbol's tag.
SymbolPlaneEverywhere ==
    ChainReturned =>
        \A k \in 1..Len(api_return.transactions) :
            api_return.transactions[k].script_plane
                = api_call.symbol.script_plane

\* ------------------------------------------------------------- claim C27
\* The sequence a planner produced: plan_chain followed by
\* as_pattern_sequence, or plan_explicit_pattern.
PlannedSequence ==
    IF ChainReturned THEN as_pattern_sequence(api_return)
    ELSE IF plan_result.ok THEN plan_result.steps
    ELSE <<>>

\* "change": self.change_output.to_jsonable(len(self.outputs))
DocumentChangeIndex(step) == Len(step.outputs)

\* Step i (1-based) of the sequence has been broadcast on its own.
StepBroadcast(i) == Chained /\ plan = PlannedSequence /\ i <= Len(ledger)

\* C27: in every sequence of plan_explicit_pattern, or of plan_chain
\* followed by as_pattern_sequence, the vout recorded on a placeholder input
\* of step i+1 is the change index the inspection document reports for step
\* i (the number of its value outputs), and it is the output index at which
\* the change of step i sits in the transaction broadcast for it.
C27_PlaceholderVout ==
    \A i \in 1..(Len(PlannedSequence) - 1) :
        \A j \in 1..Len(PlannedSequence[i + 1].inputs) :
            LET input == PlannedSequence[i + 1].inputs[j]
                step == PlannedSequence[i]
            IN IsPlaceholder(input) =>
                  /\ step.change_output.present
                  /\ input.vout = DocumentChangeIndex(step)
                  /\ StepBroadcast(i) =>
                         input.vout = ChangePosition(ledger[i], step)

\* What does hold: the recorded vout is 1 in chains and 0 in pattern
\* sequences, while the change of a broadcast step sits at the index the
\* document reports, 1.
RecordedPlaceholderVout ==
    \A i \in 1..(Len(PlannedSequence) - 1) :
        LET input == PlannedSequence[i + 1].inputs[1]
            step == PlannedSequence[i]
        IN /\ Len(PlannedSequence[i + 1].inputs) = 1
           /\ IsPlaceholder(input)
           /\ step.change_output.present
           /\ input.vout = IF ChainReturned THEN 1 ELSE 0
           /\ DocumentChangeIndex(step) = 1
           /\ StepBroadcast(i) => ChangePosition(ledger[i], step) = 1

\* ------------------------------------------------------------- claim C28
\* A non-final step of the sequence has no change output.
LacksChange(steps) ==
    \E i \in 1..(Len(steps) - 1) : ~steps[i].change_output.present

\* C28: a plan in which a non-final step has no change output is rejected
\* by broadcast_pattern_plan before any step is broadcast: the node never
\* accepts a transaction of such a plan, and the coordinator never
\* broadcasts a step whose successor it then refuses to fund.
C28_RejectedBeforeBroadcast ==
    (Chained /\ LacksChange(plan)) =>
        /\ ledger = <<>>
        /\ pc # "done"
        /\ error # "chain_ended"

\* What does hold: the step lacking change is the last one the coordinator
\* sends, and the call does not return normally.
StopsAtMissingChange ==
    (Chained /\ LacksChange(plan)) =>
        /\ pc # "done"
        /\ \A i \in 1..(Len(plan) - 1) :
              ~plan[i].change_output.present => Len(calls) <= i
        /\ error = "chain_ended" =>
              /\ ~plan[index].change_output.present
              /\ Len(ledger) = index

\* ------------------------------------------------------------- claim C29
\* The concrete funding inputs the plan records in its first step.
RecordedFunding ==
    RefsOf(SelectSeq(plan[1].inputs, LAMBDA item : ~IsPlaceholder(item)))

\* The single-transaction broadcast of a plan the planner made has sent its
\* transaction.
FanoutSent ==
    /\ plan_result.ok /\ plan = plan_result.steps
    /\ params.single_tx /\ pc = "done" /\ Len(ledger) = 1

\* C29: in single-transaction mode the one transaction broadcast spends
\* exactly the concrete funding inputs recorded in the first step of the
\* plan, and no other UTXO of the wallet.
C29_SingleTxSpendsPlanInputs ==
    FanoutSent => RefsOf(ledger[1].inputs) = RecordedFunding

\* ------------------------------------------------------------- claim C30
\* The fee frame k (1-based) of the chain is to be planned with: its own
\* when it declares one, the symbol's otherwise, truncated to 8 decimals.
DeclaredFee(k) ==
    IF PlannedFrames[k].fee.given THEN Quantize(PlannedFrames[k].fee.value)
    ELSE Quantize(api_call.symbol.fee)

\* C30: in plan_chain a frame that declares its own fee is planned with
\* exactly that fee, truncated to 8 decimals, a declared fee of 0 included;
\* the symbol's fee is used only for frames that declare none.
C30_FrameFee ==
    ChainReturned =>
        \A k \in 1..Len(api_return.transactions) :
            api_return.transactions[k].fee = DeclaredFee(k)

\* What does hold: a declared fee other than 0 is used, and a frame that
\* declares 0 or nothing is planned with the symbol's fee.
NonZeroFrameFee ==
    ChainReturned =>
        \A k \in 1..Len(api_return.transactions) :
            api_return.transactions[k].fee =
                IF Truthy(PlannedFrames[k].fee)
                THEN Quantize(PlannedFrames[k].fee.value)
                ELSE Quantize(api_call.symbol.fee)

====
